---------------------------- MODULE Spec2Model ----------------------------
(***************************************************************************)
(* Model of the step orchestrator of the interactive MAP-Elites web        *)
(* application (pcgsepy/guis/main_webapp/webapp.py): the general_callback  *)
(* dispatcher, its process lock, the handlers of triggers_map that touch   *)
(* the archive, the generation counter and the selection, and the          *)
(* _apply_step / __apply_step generation step.                             *)
(*                                                                         *)
(* The web server runs the callbacks on worker threads, so every           *)
(* invocation of general_callback is a thread of the model and the         *)
(* statements of the dispatcher and of the step interleave.                *)
(*                                                                         *)
(* MAPElites, MAPBin, Semaphore and AppSettings live outside the modelled  *)
(* files; their operations are modelled from the specification.           *)
(***************************************************************************)
EXTENDS Integers, Sequences, FiniteSets, TLC

\* ------------------------------------------------------------------ bounds

\* Number of general_callback invocations in flight at once (the server has
\* 16 worker threads; the model interleaves this many of them).
NThreads == 2
\* Largest value the evolution-iterations slider is given in the model.
MaxEmitterSteps == 1
\* Steps are requested only while the generation counter is below this cap.
MaxGen == 1

Threads == 1..NThreads

\* ------------------------------------------------------------ the archive

\* The grid has one row and two columns.  A bin is indexed (row, col); the
\* heatmap (and therefore the selection) uses (x, y) = (col, row).
BinIdx == {<<0, 0>>, <<0, 1>>}

\* The populations of a bin the model keeps: the feasible one, which is the
\* one the heatmap displays and the preview reads.
Pops == {"feasible"}

\* _switch applied to one tuple: (e[1], e[0]).
SwitchT(e) == <<e[2], e[1]>>

\* _switch applied to a list of tuples.
_switch(ls) == [k \in 1..Len(ls) |-> SwitchT(ls[k])]

\* Heatmap coordinates of the grid's bins.
SelCoords == {SwitchT(b) : b \in BinIdx}

\* A population is 0 (empty), 1 (non-empty, elite as at the last scan of
\* update_elites) or 2 (non-empty, elite changed since the last scan).

EmptyBins == [b \in BinIdx |-> [p \in Pops |-> 0]]
NoNewElite == [b \in BinIdx |-> [p \in Pops |-> FALSE]]

\* MAPBin.non_empty(pop)
non_empty(bs, b, p) == bs[b][p] # 0

\* MAPElites._valid_bins(): the bins that currently hold a solution.
_valid_bins(bs) == {b \in BinIdx : \E p \in Pops : non_empty(bs, b, p)}

\* The populations MAPElites.reset() / load_population() can produce: every
\* population freshly filled or empty, elites not yet flagged.
FreshPopulations == [BinIdx -> [Pops -> {0, 1}]]

\* MAPElites.update_elites(reset=True): clears every new_elite flag.
update_elites_reset(ne) == NoNewElite

\* MAPElites.update_elites(): flags the populations whose elite changed since
\* the last scan ...
update_elites_flags(bs, ne) ==
    [b \in BinIdx |-> [p \in Pops |-> ne[b][p] \/ bs[b][p] = 2]]

\* ... and records the elites it has seen.
update_elites_bins(bs) ==
    [b \in BinIdx |-> [p \in Pops |-> IF bs[b][p] = 2 THEN 1 ELSE bs[b][p]]]

\* The outcomes of inserting one evaluated offspring: dropped, or stored in
\* some population of some bin, where it may or may not become the elite.
InsertOutcomes(bs) ==
    {bs} \cup {[bs EXCEPT ![b][p] = 2] : b \in BinIdx, p \in Pops}

\* ------------------------------------------------------------ the emitters

\* What the model keeps of a Candidate: the elite of a bin's feasible
\* population has its genotype string, as the L-system produced it ("orig")
\* or as enforce_symmetry rewrote it ("symm"), and its cached phenotype,
\* absent ("none") or named after the string it was built from.
OrigStrings == [b \in BinIdx |-> "orig"]

\* The elites of populations just generated or loaded carry their phenotype.
FreshContent(bs) ==
    [b \in BinIdx |-> IF non_empty(bs, b, "feasible") THEN "orig" ELSE "none"]

\* enforce_symmetry(string, axis): the string made symmetric along the axis.
enforce_symmetry(str, axis) == "symm"

\* lsystem._set_structure(cs): the phenotype is built from cs.string as it
\* is at the call.
_set_structure(str) == IF str = "symm" THEN "symm" ELSE "orig"

EmitterKinds == {"Human", "Random", "Greedy", "Preference Matrix",
                 "Preference Bandit", "Contextual Bandit", "KNN",
                 "Linear Kernel", "RBF Kernel"}

\* The ids of the emitter menu's items, and of the symmetry menu's.
EmitterEvents == {"emitter-human", "emitter-random", "emitter-greedy",
                  "emitter-prefmatrix", "emitter-prefbandit",
                  "emitter-conbandit", "emitter-knn", "emitter-linkernel",
                  "emitter-rbfkernel"}
SymmetryEvents == {"symmetry-none", "symmetry-x"}

\* ------------------------------------------------- behaviour descriptors

\* The catalog of behaviour descriptors the launcher gives the application,
\* each with its name and its bounds.
behavior_descriptors ==
    << [name |-> "Major axis / Medium axis", bounds |-> <<0, 6>>],
       [name |-> "Major axis / Smallest axis", bounds |-> <<0, 12>>],
       [name |-> "Average Proportions", bounds |-> <<0, 10>>],
       [name |-> "Symmetry", bounds |-> <<0, 1>>] >>

CatalogNames ==
    {behavior_descriptors[k].name : k \in 1..Len(behavior_descriptors)}

\* behavior_descriptors[[b.name for b in behavior_descriptors].index(n)]
DescriptorNamed(n) ==
    behavior_descriptors[CHOOSE k \in 1..Len(behavior_descriptors) :
                             behavior_descriptors[k].name = n]

\* The two axes of the grid: b_descs[0] and b_descs[1] of the source are
\* the first and the second component here.
Axes == {1, 2}

\* The ids of the descriptor menus' items the model raises: the first
\* menu's "Symmetry" and the second menu's "Average Proportions".
BcEvents == {"bc0-Symmetry", "bc1-Average-Proportions"}

\* event_trig.startswith('bc0') / ('bc1'): the axis the event names.
BcAxis(ev) == IF ev = "bc0-Symmetry" THEN 1 ELSE 2

\* event_trig.replace('bcN-', '').replace('_', ' / ').replace('-', ' ')
BcName(ev) ==
    IF ev = "bc0-Symmetry" THEN "Symmetry" ELSE "Average Proportions"

\* The descriptors the archive is built with, whose names are the labels
\* the two descriptor menus are laid out with.
InitialDescriptors ==
    <<behavior_descriptors[1].name, behavior_descriptors[2].name>>

\* pop_name of general_callback: the label of the population menu, as the
\* page holds it.  The callback gives the label back as it received it and
\* no handler returns another, so the page keeps the label it was laid out
\* with.
PopLabel == "Feasible"

\* The ids of the population menu's items, and the population each names.
PopEvents == {"population-feasible", "population-infeasible"}
PopNamed(ev) == IF ev = "population-feasible" THEN "Feasible" ELSE "Infeasible"

\* ------------------------------------------------------- the bins' sizes

\* Subdivisions are requested only while fewer than this many were made.
MaxSubdivisions == 1

RECURSIVE Pow2(_)
Pow2(n) == IF n = 0 THEN 1 ELSE 2 * Pow2(n - 1)

\* Descriptor values and bin sizes are kept in units of 1 / Unit, so that
\* the sizes of the initial bins and every halving of them are exact.
Unit == 4 * Pow2(MaxSubdivisions)

\* n_bins: the grid has one bin along the first axis and two along the
\* second.
bin_qnt == <<1, 2>>

\* bounds[1] - bounds[0] of a descriptor, in units.
BoundRange(d) == (d.bounds[2] - d.bounds[1]) * Unit

\* A grid that is given the sizes of the archive's first grid.
UniformSizes_initial(names) ==
    [a \in Axes |->
        [k \in 1..bin_qnt[a] |->
            BoundRange(DescriptorNamed(InitialDescriptors[a]))
                \div bin_qnt[a]]]

\* The sizes of the bins of a grid just built for two descriptors: along
\* each axis, n_bins bins of equal size that cover the descriptor's bounds.
UniformSizes(names) ==
    [a \in Axes |->
        [k \in 1..bin_qnt[a] |->
            BoundRange(DescriptorNamed(names[a])) \div bin_qnt[a]]]

\* The indices of the bins of a grid with the given sizes.
Cells(sizes) == (0..(Len(sizes[1]) - 1)) \X (0..(Len(sizes[2]) - 1))

\* A bin's two populations, each with its members and the id of its
\* tracked elite (0 when it has none).
AllPops == {"feasible", "infeasible"}
EmptyPopulation == [members |-> {}, elite |-> 0]
EmptyCell == [p \in AllPops |-> EmptyPopulation]
EmptyGrid(sizes) == [c \in Cells(sizes) |-> EmptyCell]

\* The Buffer before any observation of the key.
NoEntry == [value |-> <<0, 1>>, n |-> 0]

\* ----------------------------------------------------------------- events

\* Trigger ids of general_callback that the model raises.  "None" is the
\* untriggered invocation (page load); "download-btn" is an Input of the
\* callback that has no entry in triggers_map.
StepEvents == {"step-btn", "rand-step-btn"}
Events == StepEvents \cup
          {"None", "reset-btn", "heatmap-plot", "selection-btn",
           "selection-clr-btn", "emitter-greedy", "bc0-Symmetry",
           "update-rules-btn", "popupload-data", "download-btn"}

\* The keys of triggers_map among the events above.
triggers_map ==
    (Events \cup EmitterEvents \cup SymmetryEvents \cup BcEvents
        \cup PopEvents \cup {"subdivide-btn", "tsrm-y-btn"})
        \ {"download-btn"}

\* step_progress is kept in twelfths of a percent so that 100 / (1 + n) is
\* exact for every n the model uses.
Hundred == 100 * 12
PercStep(n) == Hundred \div (1 + n)

NoArg == "-"

VARIABLES
    locked,         \* process_semaphore.is_locked
    first_launch,   \* the module's first_launch flag
    app_mode,       \* app_settings.app_mode: "USER" or "DEV"
    enforce_qnt,    \* mapelites.enforce_qnt
    bins,           \* mapelites.bins: the populations of every bin
    new_elite,      \* every bin's new_elite flags
    emitter,        \* mapelites.emitter (its variant)
    chosen,         \* the variant chosen at construction or by set-emitter
    emitter_steps,  \* app_settings.emitter_steps
    step_progress,  \* app_settings.step_progress (twelfths of a percent)
    gen_counter,    \* app_settings.gen_counter
    selected_bins,  \* app_settings.selected_bins
    pc,             \* where each invocation stands
    trig,           \* each invocation's event_trig
    arg,            \* each invocation's input (click point, rules text, file)
    loc,            \* each invocation's local variables
    events,         \* the events each worker thread is given to serve
    emitter_used,   \* the installed emitter holds statistics of past steps
    rules,          \* the ruleset installed in the L-system's parser
    symmetry,       \* app_settings.symmetry: "None" or an axis
    elite_string,   \* every bin's feasible elite: its genotype string
    elite_content,  \* ... and the string its cached phenotype was built from
    uncached,       \* some non-elite Candidate has no cached phenotype
    xpc,            \* where the download_content invocation stands
    download_semaphore, \* the export lock: is_locked and _running
    exported,       \* the bin and population of the last blueprint exported
    dumped,         \* the process lock at the last download_mapelites
    poll,           \* what the last interval_updates poll reported
    b_descs,        \* mapelites.b_descs: the names of the active descriptors
    bin_sizes,      \* mapelites.bin_sizes: the bins' sizes along each axis
    cells,          \* the members and the tracked elite of every bin
    next_id,        \* the number the next Candidate created is given
    buffer,         \* the Buffer's entry at one key: merged value and count
    observations,   \* the observations of that key, in the order they arrive
    curr_heatmap,   \* the population the heatmap figure on the page displays
    safe_mode       \* app_settings.safe_mode, the safe-mode switch's value

vars == <<locked, first_launch, app_mode, enforce_qnt, bins, new_elite,
          emitter, chosen, emitter_steps, step_progress, gen_counter,
          selected_bins, pc, trig, arg, loc, events, emitter_used,
          rules, symmetry, elite_string, elite_content, uncached, xpc,
          download_semaphore, exported, dumped, poll, b_descs, bin_sizes,
          cells, next_id, buffer, observations, curr_heatmap, safe_mode>>

\* The Candidates of the archive, and the state of the export callbacks.
candidates == <<elite_string, elite_content, uncached>>
export_state == <<xpc, download_semaphore, exported, dumped>>

archive == <<bins, new_elite, emitter, enforce_qnt>>

\* The Candidates the bins hold one by one, and the Buffer.
library == <<cells, next_id, buffer, observations>>

\* The locals of an invocation before its handler runs.  phases is the log
\* of the phases the invocation's step has gone through.
NoLocals == [sel |-> <<>>, perc |-> 0, n |-> 0, it |-> 0, tmp |-> NoArg,
             tmp_used |-> FALSE, label |-> NoArg, rules_out |-> NoArg,
             res |-> "none", gen |-> 0, modal |-> FALSE, multi |-> FALSE,
             invoked |-> NoArg, refreshed |-> FALSE,
             phases |-> <<>>]

\* Inputs an event can carry: the clicked heatmap point, the rules text
\* (valid, failing validation, or a line that is not "lhs p rhs"), the
\* uploaded population file (loadable or not).
Args(ev) ==
    CASE ev = "heatmap-plot" -> SelCoords
      [] ev = "update-rules-btn" -> {"valid", "invalid", "malformed"}
      [] ev = "popupload-data" -> {"good", "corrupt"}
      [] OTHER -> {NoArg}

\* Semaphore: a binary flag.  lock() sets it whatever its value, unlock()
\* clears it, is_locked reads it; none of them waits.
SemaphoreLock(is_locked) == TRUE
SemaphoreUnlock(is_locked) == FALSE

\* What AppSettings and MAPElites hold when they are built: single-bin
\* selection enforced, an empty archive, the slider's value, no step in
\* progress (step_progress = -1), generation 0, nothing selected.
Defaults ==
    /\ enforce_qnt = TRUE
    /\ bins = EmptyBins
    /\ new_elite = NoNewElite
    /\ emitter_steps \in 0..MaxEmitterSteps
    /\ step_progress = -(Hundred \div 100)
    /\ gen_counter = 0
    /\ selected_bins = <<>>

\* The state after the launcher has built the application: the process
\* lock free, no page served yet, the ContextualBanditEmitter installed.
\* evs gives every worker thread the events it serves.
ProgramInit(evs, modes) ==
    /\ locked = FALSE
    /\ first_launch = TRUE
    /\ app_mode \in modes
    /\ emitter = "Contextual Bandit"
    /\ chosen = "Contextual Bandit"
    /\ Defaults
    /\ pc = [t \in Threads |-> "idle"]
    /\ trig = [t \in Threads |-> NoArg]
    /\ arg = [t \in Threads |-> NoArg]
    /\ loc = [t \in Threads |-> NoLocals]
    /\ events = evs
    /\ emitter_used = FALSE
    /\ rules = "initial"
    /\ symmetry = "None"
    /\ elite_string = OrigStrings
    /\ elite_content = FreshContent(EmptyBins)
    /\ uncached = FALSE
    /\ xpc = "idle"
    /\ download_semaphore = [is_locked |-> TRUE, running |-> "NO"]
    /\ exported = NoArg
    /\ dumped = "none"
    /\ poll = [ni |-> 0, controls |-> FALSE, download_btn |-> FALSE]
    /\ b_descs = InitialDescriptors
    /\ bin_sizes = UniformSizes(InitialDescriptors)
    /\ curr_heatmap = PopLabel
    /\ safe_mode = TRUE

\* The bins hold no Candidate yet, and the Buffer no observation.
ArchiveEmpty ==
    /\ cells = EmptyGrid(bin_sizes)
    /\ next_id = 1

BufferEmpty ==
    /\ buffer = NoEntry
    /\ observations = <<>>

InitWith(evs, modes) ==
    /\ ProgramInit(evs, modes)
    /\ ArchiveEmpty
    /\ BufferEmpty

\* ------------------------------------------------------- general_callback

\* The invocation ends: by returning its outputs or by an exception that
\* leaves the callback.
Ends(t) ==
    /\ pc' = [pc EXCEPT ![t] = "idle"]
    /\ trig' = [trig EXCEPT ![t] = NoArg]
    /\ arg' = [arg EXCEPT ![t] = NoArg]
    /\ loc' = [loc EXCEPT ![t] = NoLocals]

Goto(t, label) ==
    /\ pc' = [pc EXCEPT ![t] = label]
    /\ UNCHANGED <<trig, arg>>

\* The untriggered invocation of the first launch is turned into a reset.
EventTrig(ev, fl) == IF ev = "None" /\ fl THEN "reset-btn" ELSE ev

\* An invocation starts: dash.callback_context gives the trigger, and the
\* first untriggered one consumes first_launch.  The page's controls exist
\* only once the page was loaded, so other events follow the first launch.
Arrive(t) ==
    /\ pc[t] = "idle"
    /\ \E ev \in events[t] : \E a \in Args(ev) :
          /\ ev # "None" => ~first_launch
          /\ ev \in StepEvents => gen_counter < MaxGen
          /\ ev = "subdivide-btn" =>
                 Len(bin_sizes[1]) - bin_qnt[1] < MaxSubdivisions
          /\ trig' = [trig EXCEPT ![t] = EventTrig(ev, first_launch)]
          /\ arg' = [arg EXCEPT ![t] = a]
          /\ first_launch' = IF ev = "None" THEN FALSE ELSE first_launch
    /\ pc' = [pc EXCEPT ![t] = "check"]
    /\ UNCHANGED <<curr_heatmap, safe_mode>>
    /\ UNCHANGED <<events, poll, b_descs, bin_sizes, library>>
    /\ UNCHANGED <<emitter_used, rules, symmetry, candidates, export_state>>
    /\ UNCHANGED <<locked, app_mode, enforce_qnt, bins, new_elite, emitter,
                   chosen, emitter_steps, step_progress, gen_counter,
                   selected_bins, loc>>

\* A dispatch that does not look at the lock.
MayDispatch_always(is_locked) == TRUE

\* "if not process_semaphore.is_locked"
MayDispatch(is_locked) == ~is_locked

\* The invocation reads the lock.  Held: it skips the dispatch.
CheckLock(t) ==
    /\ pc[t] = "check"
    /\ IF MayDispatch(locked) THEN Goto(t, "lock") ELSE Goto(t, "busy")
    /\ UNCHANGED loc
    /\ UNCHANGED <<curr_heatmap, safe_mode>>
    /\ UNCHANGED <<events, poll, b_descs, bin_sizes, library>>
    /\ UNCHANGED <<emitter_used, rules, symmetry, candidates, export_state>>
    /\ UNCHANGED <<locked, first_launch, app_mode, enforce_qnt, bins,
                   new_elite, emitter, chosen, emitter_steps, step_progress,
                   gen_counter, selected_bins>>

\* The invocation that found the lock held returns its unchanged outputs.
ReturnBusy(t) ==
    /\ pc[t] = "busy"
    /\ Ends(t)
    /\ UNCHANGED <<curr_heatmap, safe_mode>>
    /\ UNCHANGED <<events, poll, b_descs, bin_sizes, library>>
    /\ UNCHANGED <<emitter_used, rules, symmetry, candidates, export_state>>
    /\ UNCHANGED <<locked, first_launch, app_mode, enforce_qnt, bins,
                   new_elite, emitter, chosen, emitter_steps, step_progress,
                   gen_counter, selected_bins>>

\* process_semaphore.lock(name=event_trig)
Lock(t) ==
    /\ pc[t] = "lock"
    /\ locked' = SemaphoreLock(locked)
    /\ Goto(t, "handler")
    /\ UNCHANGED <<curr_heatmap, safe_mode>>
    /\ UNCHANGED <<events, poll, b_descs, bin_sizes, library>>
    /\ UNCHANGED <<emitter_used, rules, symmetry, candidates, export_state>>
    /\ UNCHANGED <<first_launch, app_mode, enforce_qnt, bins, new_elite,
                   emitter, chosen, emitter_steps, step_progress,
                   gen_counter, selected_bins, loc>>

\* triggers_map[event_trig] with a trigger that is no key: KeyError leaves
\* the callback.
Unhandled(t) ==
    /\ pc[t] = "handler"
    /\ trig[t] \notin triggers_map
    /\ Ends(t)
    /\ UNCHANGED <<curr_heatmap, safe_mode>>
    /\ UNCHANGED <<events, poll, b_descs, bin_sizes, library>>
    /\ UNCHANGED <<emitter_used, rules, symmetry, candidates, export_state>>
    /\ UNCHANGED <<locked, first_launch, app_mode, enforce_qnt, bins,
                   new_elite, emitter, chosen, emitter_steps, step_progress,
                   gen_counter, selected_bins>>

\* _format_bins(bins_idx_list, do_switch=True, filter_out_empty=True): for
\* every listed (i, j) whose bin [j, i] is empty in both populations, the
\* bin's own index (j, i) is removed from the list if it is listed.
RECURSIVE RemoveFirst(_, _)
RemoveFirst(ls, e) ==
    IF ls = <<>> THEN <<>>
    ELSE IF Head(ls) = e THEN Tail(ls)
    ELSE <<Head(ls)>> \o RemoveFirst(Tail(ls), e)

InList(ls, e) == \E k \in 1..Len(ls) : ls[k] = e

RECURSIVE FormatFrom(_, _, _)
FormatFrom(bs, todo, ls) ==
    IF todo = <<>> THEN ls
    ELSE LET b == SwitchT(Head(todo)) IN
         IF b \in _valid_bins(bs) \/ ~InList(ls, b)
           THEN FormatFrom(bs, Tail(todo), ls)
           ELSE FormatFrom(bs, Tail(todo), RemoveFirst(ls, b))

_format_bins(bs, bins_idx_list) == FormatFrom(bs, bins_idx_list, bins_idx_list)

\* After the handler: the selection is filtered (and the preview redrawn),
\* process_semaphore.unlock(), and the outputs are returned.
FormatAndUnlock(t) ==
    /\ pc[t] = "format"
    /\ selected_bins' = _format_bins(bins, selected_bins)
    /\ locked' = SemaphoreUnlock(locked)
    /\ Ends(t)
    /\ UNCHANGED <<curr_heatmap, safe_mode>>
    /\ UNCHANGED <<events, poll, b_descs, bin_sizes, library>>
    /\ UNCHANGED <<emitter_used, rules, symmetry, candidates, export_state>>
    /\ UNCHANGED <<first_launch, app_mode, enforce_qnt, bins, new_elite,
                   emitter, chosen, emitter_steps, step_progress,
                   gen_counter>>

\* ---------------------------------------------------------------- handlers

\* A handler that ran to its return statement: on to _format_bins.
Handled(t) == Goto(t, "format")

\* The Candidates after the populations were replaced by bins'.
FreshCandidates ==
    /\ elite_string' = OrigStrings
    /\ elite_content' = FreshContent(bins')
    /\ uncached' = FALSE

\* __reset: mapelites.reset(), gen_counter = 0, selected_bins = [].
Reset(t) ==
    /\ pc[t] = "handler"
    /\ trig[t] = "reset-btn"
    /\ bins' \in FreshPopulations
    /\ FreshCandidates
    /\ new_elite' = NoNewElite
    /\ gen_counter' = 0
    /\ selected_bins' = <<>>
    /\ Handled(t)
    /\ curr_heatmap' = PopLabel
    /\ UNCHANGED safe_mode
    /\ UNCHANGED <<events, poll, b_descs, bin_sizes, library>>
    /\ UNCHANGED <<emitter_used, rules, symmetry, export_state>>
    /\ UNCHANGED <<locked, first_launch, app_mode, enforce_qnt, emitter,
                   chosen, emitter_steps, step_progress, loc>>

\* _get_elite_content(bin_idx=b, pop='feasible'): without a symmetry the
\* elite's phenotype is read.  With one, "elite._content = None;
\* elite.string = enforce_symmetry(...); _set_structure(cs=elite);
\* elite.string = original_string": the phenotype is rebuilt from the
\* symmetric string and the string is put back.
_get_elite_content(sym, str, cont, b) ==
    IF sym = "None" THEN cont
    ELSE [cont EXCEPT ![b] = _set_structure(enforce_symmetry(str[b], sym))]

\* The preview of the last selected bin, if there is one to draw.
PreviewSelected(sel) ==
    IF sel # <<>> /\ non_empty(bins, SwitchT(sel[Len(sel)]), "feasible")
      THEN _get_elite_content(symmetry, elite_string, elite_content,
                              SwitchT(sel[Len(sel)]))
      ELSE elite_content

\* __default: a later page load only redraws the heatmap and the preview
\* of the last selected bin.
Default(t) ==
    /\ pc[t] = "handler"
    /\ trig[t] = "None"
    /\ elite_content' = PreviewSelected(selected_bins)
    /\ Handled(t)
    /\ curr_heatmap' = PopLabel
    /\ UNCHANGED safe_mode
    /\ UNCHANGED <<events, poll, b_descs, bin_sizes, library>>
    /\ UNCHANGED <<emitter_used, rules, symmetry, elite_string, uncached, export_state>>
    /\ UNCHANGED <<locked, first_launch, app_mode, enforce_qnt, bins,
                   new_elite, emitter, chosen, emitter_steps, step_progress,
                   gen_counter, selected_bins, loc>>

\* The click on heatmap point pt = (i, j) hits a bin [j, i] that is
\* non-empty in the displayed population (the feasible one, the dropdown's
\* label) and is one of _valid_bins().
ClickValid(bs, pt) ==
    non_empty(bs, SwitchT(pt), "feasible") /\ SwitchT(pt) \in _valid_bins(bs)

\* "if not enforce_qnt and app_settings.selected_bins != []"
MultiSelect(enf, sel) == ~enf /\ sel # <<>>

\* A click that always replaces the selection.
ClickApplied_replace(multi, sel, pt) == <<pt>>

\* The selection after the click: the point is appended or removed when
\* several bins may be selected, else it becomes the selection.
ClickApplied(multi, sel, pt) ==
    IF multi THEN IF ~InList(sel, pt) THEN Append(sel, pt)
                                      ELSE RemoveFirst(sel, pt)
             ELSE <<pt>>

\* The selection after a click handled on its own.
ClickSelection(bs, enf, sel, pt) ==
    IF ClickValid(bs, pt) THEN ClickApplied(MultiSelect(enf, sel), sel, pt)
                          ELSE sel

\* __update_content up to its test of enforce_qnt: a valid click draws the
\* preview of the clicked bin and reads enforce_qnt and the selection; any
\* other click changes nothing.
UpdateContent(t) ==
    /\ pc[t] = "handler"
    /\ trig[t] = "heatmap-plot"
    /\ IF ClickValid(bins, arg[t])
         THEN /\ elite_content' =
                    _get_elite_content(symmetry, elite_string, elite_content,
                                       SwitchT(arg[t]))
              /\ loc' = [loc EXCEPT
                            ![t].multi = MultiSelect(enforce_qnt, selected_bins)]
              /\ Goto(t, "uc_select")
         ELSE /\ UNCHANGED <<elite_content, loc>>
              /\ Handled(t)
    /\ UNCHANGED <<curr_heatmap, safe_mode>>
    /\ UNCHANGED <<events, poll, b_descs, bin_sizes, library>>
    /\ UNCHANGED <<emitter_used, rules, symmetry, elite_string, uncached, export_state>>
    /\ UNCHANGED <<locked, first_launch, app_mode, enforce_qnt, bins,
                   new_elite, emitter, chosen, emitter_steps, step_progress,
                   gen_counter, selected_bins>>

\* __update_content, the branch taken: the selection is changed.
UpdateSelection(t) ==
    /\ pc[t] = "uc_select"
    /\ selected_bins' = ClickApplied(loc[t].multi, selected_bins, arg[t])
    /\ Handled(t)
    /\ curr_heatmap' = IF selected_bins' # <<>> THEN PopLabel ELSE curr_heatmap
    /\ UNCHANGED safe_mode
    /\ UNCHANGED <<events, poll, b_descs, bin_sizes, library>>
    /\ UNCHANGED <<emitter_used, rules, symmetry, candidates, export_state>>
    /\ UNCHANGED <<locked, first_launch, app_mode, enforce_qnt, bins,
                   new_elite, emitter, chosen, emitter_steps, step_progress,
                   gen_counter, loc>>

\* The grids MAPElites.update_behavior_descriptors() can produce: every
\* solution is re-inserted under the new axes, so an archive that held
\* solutions still holds some, in whatever bins they now fall.
Rebinned(bs) ==
    IF _valid_bins(bs) = {} THEN {bs}
    ELSE {f \in FreshPopulations : _valid_bins(f) # {}}

\* __update_heatmap: the heatmap is built for the population the event
\* names, and only the figure is returned.
UpdateHeatmap(t) ==
    /\ pc[t] = "handler"
    /\ trig[t] \in PopEvents
    /\ curr_heatmap' = PopNamed(trig[t])
    /\ Handled(t)
    /\ UNCHANGED safe_mode
    /\ UNCHANGED <<events, poll, b_descs, bin_sizes, library>>
    /\ UNCHANGED <<emitter_used, rules, symmetry, candidates, export_state>>
    /\ UNCHANGED <<locked, first_launch, app_mode, enforce_qnt, bins,
                   new_elite, emitter, chosen, emitter_steps, step_progress,
                   gen_counter, selected_bins, loc>>

\* b0 and b1 of general_callback: the labels of the two descriptor menus,
\* as the page holds them.  The callback gives both labels back as it
\* received them, so the page keeps the labels it was laid out with.
BcLabels == InitialDescriptors

\* __bc_change: the descriptor the event names replaces the label of its
\* axis, the other axis is given by the other menu's label, and the grid is
\* rebuilt for the two; the selection is left as it is.
BcChange(t) ==
    /\ pc[t] = "handler"
    /\ trig[t] \in BcEvents
    /\ b_descs' = [BcLabels EXCEPT ![BcAxis(trig[t])] = BcName(trig[t])]
    /\ bin_sizes' = UniformSizes(b_descs')
    /\ bins' \in Rebinned(bins)
    /\ elite_string' = OrigStrings
    /\ elite_content' = FreshContent(bins')
    /\ new_elite' = NoNewElite
    /\ Handled(t)
    /\ curr_heatmap' = PopLabel
    /\ UNCHANGED safe_mode
    /\ UNCHANGED <<events, poll, library>>
    /\ UNCHANGED <<emitter_used, rules, symmetry, uncached, export_state>>
    /\ UNCHANGED <<locked, first_launch, app_mode, enforce_qnt, emitter,
                   chosen, emitter_steps, step_progress, gen_counter,
                   selected_bins, loc>>

\* __selection, first statement: enforce_qnt is flipped.
SelectionToggle(t) ==
    /\ pc[t] = "handler"
    /\ trig[t] = "selection-btn"
    /\ enforce_qnt' = ~enforce_qnt
    /\ Goto(t, "sel_trunc")
    /\ UNCHANGED <<curr_heatmap, safe_mode>>
    /\ UNCHANGED <<events, poll, b_descs, bin_sizes, library>>
    /\ UNCHANGED <<emitter_used, rules, symmetry, candidates, export_state>>
    /\ UNCHANGED <<locked, first_launch, app_mode, bins, new_elite, emitter,
                   chosen, emitter_steps, step_progress, gen_counter,
                   selected_bins, loc>>

\* __selection, second statement: with enforcement now on, a longer
\* selection is cut to its last bin.
SelectionTruncate(t) ==
    /\ pc[t] = "sel_trunc"
    /\ selected_bins' = IF enforce_qnt /\ selected_bins # <<>>
                          THEN <<selected_bins[Len(selected_bins)]>>
                          ELSE selected_bins
    /\ Handled(t)
    /\ UNCHANGED <<curr_heatmap, safe_mode>>
    /\ UNCHANGED <<events, poll, b_descs, bin_sizes, library>>
    /\ UNCHANGED <<emitter_used, rules, symmetry, candidates, export_state>>
    /\ UNCHANGED <<locked, first_launch, app_mode, enforce_qnt, bins,
                   new_elite, emitter, chosen, emitter_steps, step_progress,
                   gen_counter, loc>>

\* __clear_selection
ClearSelection(t) ==
    /\ pc[t] = "handler"
    /\ trig[t] = "selection-clr-btn"
    /\ selected_bins' = <<>>
    /\ Handled(t)
    /\ UNCHANGED <<curr_heatmap, safe_mode>>
    /\ UNCHANGED <<events, poll, b_descs, bin_sizes, library>>
    /\ UNCHANGED <<emitter_used, rules, symmetry, candidates, export_state>>
    /\ UNCHANGED <<locked, first_launch, app_mode, enforce_qnt, bins,
                   new_elite, emitter, chosen, emitter_steps, step_progress,
                   gen_counter, loc>>

\* __apply_symmetry: app_settings.symmetry is set from the trigger and the
\* selection is emptied.
SymmetryFor(ev) == IF ev = "symmetry-none" THEN "None" ELSE "x"

ApplySymmetry(t) ==
    /\ pc[t] = "handler"
    /\ trig[t] \in SymmetryEvents
    /\ symmetry' = SymmetryFor(trig[t])
    /\ selected_bins' = <<>>
    /\ Handled(t)
    /\ curr_heatmap' = PopLabel
    /\ UNCHANGED safe_mode
    /\ UNCHANGED <<events, poll, b_descs, bin_sizes, library>>
    /\ UNCHANGED <<emitter_used, rules, candidates, export_state>>
    /\ UNCHANGED <<locked, first_launch, app_mode, enforce_qnt, bins,
                   new_elite, emitter, chosen, emitter_steps, step_progress,
                   gen_counter, loc>>

\* __emitter: the name the trigger id stands for.
emitter_name(ev) ==
    CASE ev = "emitter-human" -> "Human"
      [] ev = "emitter-random" -> "Random"
      [] ev = "emitter-greedy" -> "Greedy"
      [] ev = "emitter-prefmatrix" -> "Preference Matrix"
      [] ev = "emitter-prefbandit" -> "Preference Bandit"
      [] ev = "emitter-conbandit" -> "Contextual Bandit"
      [] ev = "emitter-knn" -> "KNN"
      [] ev = "emitter-linkernel" -> "Linear Kernel"
      [] ev = "emitter-rbfkernel" -> "RBF Kernel"

\* The names for which a branch of __emitter builds an emitter: "if
\* emitter_name == 'Random'", then "if emitter_name == 'Greedy' ... elif
\* emitter_name == 'Preference-matrix' ... elif ... 'Human'"; every other
\* name ends in the else branch, which logs an error.
BuiltNames == {"Random", "Greedy", "Preference-matrix", "Contextual Bandit",
               "Preference Bandit", "KNN", "Linear Kernel", "Human"}

\* The variant of the emitter a branch builds.
BuiltVariant(name) ==
    IF name = "Preference-matrix" THEN "Preference Matrix" ELSE name

\* The archive's emitter after __emitter ran for the name.
InstalledEmitter(name, current) ==
    IF name \in BuiltNames THEN BuiltVariant(name) ELSE current

\* __emitter: the emitter is built and installed, and the name is returned
\* as the menu's label.
SetEmitter(t) ==
    /\ pc[t] = "handler"
    /\ trig[t] \in EmitterEvents
    /\ emitter' = InstalledEmitter(emitter_name(trig[t]), emitter)
    /\ emitter_used' = IF emitter_name(trig[t]) \in BuiltNames
                         THEN FALSE ELSE emitter_used
    /\ chosen' = emitter_name(trig[t])
    /\ loc' = [loc EXCEPT ![t].label = emitter_name(trig[t])]
    /\ Handled(t)
    /\ UNCHANGED <<curr_heatmap, safe_mode>>
    /\ UNCHANGED <<events, poll, b_descs, bin_sizes, library>>
    /\ UNCHANGED <<rules, symmetry, candidates, export_state>>
    /\ UNCHANGED <<locked, first_launch, app_mode, enforce_qnt, bins,
                   new_elite, emitter_steps, step_progress, gen_counter,
                   selected_bins>>

\* "lhs, p, rhs = rule.strip().split(' ')" and "float(p)" succeed on every
\* line of the text.
ParsesAsRules(text) == text # "malformed"

\* new_rules.validate() passes.
Validates(text) == text = "valid"

\* __update_rules: a line that does not split into lhs, p, rhs (or whose p
\* is no number) raises ValueError before the try block; a ruleset failing
\* validate() is caught and logged; otherwise the ruleset is installed.  The
\* handler returns the text of the installed rules.
UpdateRules(t) ==
    /\ pc[t] = "handler"
    /\ trig[t] = "update-rules-btn"
    /\ IF ~ParsesAsRules(arg[t])
         THEN /\ Ends(t)
              /\ UNCHANGED rules
         ELSE /\ rules' = IF Validates(arg[t]) THEN "custom" ELSE rules
              /\ loc' = [loc EXCEPT ![t].rules_out = rules']
              /\ Handled(t)
    /\ UNCHANGED <<curr_heatmap, safe_mode>>
    /\ UNCHANGED <<events, poll, b_descs, bin_sizes, library>>
    /\ UNCHANGED <<emitter_used, symmetry, candidates, export_state>>
    /\ UNCHANGED <<locked, first_launch, app_mode, enforce_qnt, bins,
                   new_elite, emitter, chosen, emitter_steps, step_progress,
                   gen_counter, selected_bins>>

\* The uploaded file cannot be loaded.
LoadFails(file) == file = "corrupt"

\* MAPElites.load_population(filename): the populations are replaced by
\* the file's; a file that cannot be loaded raises and leaves the archive
\* as it was.
load_population(bs, file) == IF LoadFails(file) THEN {bs} ELSE FreshPopulations

\* A handler that assigns its new values whether or not the load raised.
AfterLoad_always(failed, cur, new) == new

\* The assignments that follow load_population in the handler are reached
\* only if it returned.
AfterLoad(failed, cur, new) == IF failed THEN cur ELSE new

\* __population_upload: load_population, then gen_counter = 0 and
\* selected_bins = [].  An exception of load_population leaves the handler.
PopulationUpload(t) ==
    /\ pc[t] = "handler"
    /\ trig[t] = "popupload-data"
    /\ bins' \in load_population(bins, arg[t])
    /\ gen_counter' = AfterLoad(LoadFails(arg[t]), gen_counter, 0)
    /\ selected_bins' = AfterLoad(LoadFails(arg[t]), selected_bins, <<>>)
    /\ IF LoadFails(arg[t])
         THEN /\ UNCHANGED <<new_elite, candidates>>
              /\ Goto(t, "raised")
         ELSE /\ FreshCandidates
              /\ new_elite' = NoNewElite
              /\ Handled(t)
    /\ UNCHANGED loc
    /\ curr_heatmap' = AfterLoad(LoadFails(arg[t]), curr_heatmap, PopLabel)
    /\ UNCHANGED safe_mode
    /\ UNCHANGED <<events, poll, b_descs, bin_sizes, library>>
    /\ UNCHANGED <<emitter_used, rules, symmetry, export_state>>
    /\ UNCHANGED <<locked, first_launch, app_mode, enforce_qnt, emitter,
                   chosen, emitter_steps, step_progress>>

\* The exception of a handler leaves general_callback.
Raised(t) ==
    /\ pc[t] = "raised"
    /\ Ends(t)
    /\ UNCHANGED <<curr_heatmap, safe_mode>>
    /\ UNCHANGED <<events, poll, b_descs, bin_sizes, library>>
    /\ UNCHANGED <<emitter_used, rules, symmetry, candidates, export_state>>
    /\ UNCHANGED <<locked, first_launch, app_mode, enforce_qnt, bins,
                   new_elite, emitter, chosen, emitter_steps, step_progress,
                   gen_counter, selected_bins>>

\* "ruleset = 'hlrules' if curr_unsafemode else 'hlrules_sm'"
TargetRuleset(curr_unsafemode) ==
    IF curr_unsafemode THEN "hlrules" ELSE "hlrules_sm"

\* __toggle_unsafe_mode: RuleMaker(ruleset).get_rules() gives the rules,
\* which are installed, or raises AssertionError, which is logged; either
\* way the population is reset, gen_counter = 0, selected_bins = [] and
\* safe_mode = not curr_unsafemode.  curr_unsafemode is the value of the
\* switch, which the page was laid out with from safe_mode and which the
\* handler returns as it sets safe_mode.
ToggleUnsafeMode(t) ==
    /\ pc[t] = "handler"
    /\ trig[t] = "tsrm-y-btn"
    /\ \E installed \in BOOLEAN :
          /\ rules' = IF installed THEN TargetRuleset(safe_mode) ELSE rules
          /\ loc' = [loc EXCEPT ![t].rules_out =
                                   IF installed THEN rules' ELSE "failed"]
    /\ bins' \in FreshPopulations
    /\ FreshCandidates
    /\ new_elite' = NoNewElite
    /\ gen_counter' = 0
    /\ selected_bins' = <<>>
    /\ safe_mode' = ~safe_mode
    /\ curr_heatmap' = PopLabel
    /\ Handled(t)
    /\ UNCHANGED <<events, poll, b_descs, bin_sizes, library>>
    /\ UNCHANGED <<emitter_used, symmetry, export_state>>
    /\ UNCHANGED <<locked, first_launch, app_mode, enforce_qnt, emitter,
                   chosen, emitter_steps, step_progress>>

\* change_emitter_steps: a callback of its own, outside the process lock.
ChangeEmitterSteps ==
    /\ ~first_launch
    /\ \E n \in 0..MaxEmitterSteps :
          /\ n # emitter_steps
          /\ emitter_steps' = n
    /\ UNCHANGED <<curr_heatmap, safe_mode>>
    /\ UNCHANGED <<events, poll, b_descs, bin_sizes, library>>
    /\ UNCHANGED <<emitter_used, rules, symmetry, candidates, export_state>>
    /\ UNCHANGED <<locked, first_launch, app_mode, enforce_qnt, bins,
                   new_elite, emitter, chosen, step_progress, gen_counter,
                   selected_bins, pc, trig, arg, loc>>

\* ------------------------------------------ download_content, download_mapelites

\* The population write_archive takes the elite from: pop='feasible'.
ExportPop == "feasible"

\* The bin write_archive takes the elite from:
\* _switch([app_settings.selected_bins[-1]])[0].
ExportBin(sel) == SwitchT(sel[Len(sel)])

\* What the export callbacks leave alone.
ExportFrame ==
    /\ UNCHANGED <<curr_heatmap, safe_mode>>
    /\ UNCHANGED <<events, poll, b_descs, bin_sizes, library>>
    /\ UNCHANGED <<locked, first_launch, app_mode, enforce_qnt, bins,
                   new_elite, emitter, chosen, emitter_steps, step_progress,
                   gen_counter, selected_bins, pc, trig, arg, loc,
                   emitter_used, rules, symmetry, elite_content, uncached,
                   dumped>>

\* download_content, a callback of its own on the download button: "if
\* app_settings.selected_bins" it hands write_archive to dcc.send_bytes,
\* else it returns no file.  write_archive starts with the thumbnail.
ExportRequest ==
    /\ xpc = "idle"
    /\ ~first_launch
    /\ xpc' = IF selected_bins # <<>> THEN "thumb" ELSE "idle"
    /\ UNCHANGED <<elite_string, download_semaphore, exported>>
    /\ ExportFrame

\* write_archive: "elite = get_elite(bin_idx=_switch([selected_bins[-1]])[0],
\* pop='feasible')", and with a symmetry set "elite.string =
\* enforce_symmetry(string=elite.string, axis=app_settings.symmetry)".
\* Without a selected bin, or with no elite in it, the export ends in an
\* exception.
ExportRead ==
    /\ xpc = "thumb"
    /\ IF selected_bins # <<>>
           /\ non_empty(bins, ExportBin(selected_bins), ExportPop)
         THEN /\ elite_string' =
                    IF symmetry = "None" THEN elite_string
                    ELSE [elite_string EXCEPT ![ExportBin(selected_bins)] =
                              enforce_symmetry(@, symmetry)]
              /\ exported' = [bin |-> ExportBin(selected_bins),
                              pop |-> ExportPop]
              /\ xpc' = "copy"
         ELSE /\ xpc' = "idle"
              /\ UNCHANGED <<elite_string, exported>>
    /\ UNCHANGED download_semaphore
    /\ ExportFrame

\* write_archive: the elite's string, ll_string and base_color are copied
\* into tmp and tmp's structure is built; then download_semaphore.unlock()
\* and download_semaphore._running = 'YES'.
ExportCopy ==
    /\ xpc = "copy"
    /\ download_semaphore' =
          [is_locked |-> SemaphoreUnlock(download_semaphore.is_locked),
           running |-> "YES"]
    /\ xpc' = "hull"
    /\ UNCHANGED <<elite_string, exported>>
    /\ ExportFrame

\* write_archive: the hull is added to tmp, the blueprint is written, and
\* download_semaphore._running = 'NO'.
ExportHull ==
    /\ xpc = "hull"
    /\ download_semaphore' = [download_semaphore EXCEPT !.running = "NO"]
    /\ xpc' = "idle"
    /\ UNCHANGED <<elite_string, exported>>
    /\ ExportFrame

\* write_archive: hullbuilder.add_external_hull or convert_structure_to_xml
\* raises; the export ends there, with _running as it is.
ExportFails ==
    /\ xpc = "hull"
    /\ xpc' = "idle"
    /\ UNCHANGED <<elite_string, download_semaphore, exported>>
    /\ ExportFrame

\* download_mapelites, a callback of its own: json_dumps of the archive,
\* with no look at the process lock.
DownloadMapelites ==
    /\ ~first_launch
    /\ dumped' = IF locked THEN "held" ELSE "free"
    /\ UNCHANGED <<curr_heatmap, safe_mode>>
    /\ UNCHANGED <<events, poll, b_descs, bin_sizes, library>>
    /\ UNCHANGED <<locked, first_launch, app_mode, enforce_qnt, bins,
                   new_elite, emitter, chosen, emitter_steps, step_progress,
                   gen_counter, selected_bins, pc, trig, arg, loc,
                   emitter_used, rules, symmetry, candidates, xpc,
                   download_semaphore, exported>>

\* -------------------------------------------------------- interval_updates

\* A poll that reports nothing as running.
running_something_never(is_locked) == FALSE

\* running_something = process_semaphore.is_locked
running_something(is_locked) == is_locked

\* 'download-btn.disabled': running_something or
\* download_semaphore._running == 'YES'
DownloadDisabled(running, sem) == running \/ sem.running = "YES"

\* interval_updates, the callback of the page's interval timer: every
\* control's disabled property is running_something, the download button's
\* also covers a running export.  ni is the timer's count (kept modulo 2).
IntervalUpdates ==
    /\ ~first_launch
    /\ poll' = [ni |-> 1 - poll.ni,
                controls |-> running_something(locked),
                download_btn |->
                    DownloadDisabled(running_something(locked),
                                     download_semaphore)]
    /\ UNCHANGED <<curr_heatmap, safe_mode>>
    /\ UNCHANGED <<events, b_descs, bin_sizes, library>>
    /\ UNCHANGED <<locked, first_launch, app_mode, enforce_qnt, bins,
                   new_elite, emitter, chosen, emitter_steps, step_progress,
                   gen_counter, selected_bins, pc, trig, arg, loc,
                   emitter_used, rules, symmetry, candidates, export_state>>

\* ------------------------------------------------- __apply_step, _apply_step

\* An only_emitter that is true of a rand-step-btn step in every mode.
only_emitter_anymode(t) == trig[t] = "rand-step-btn"

\* only_emitter = (event_trig == 'rand-step-btn' and app_mode == USER)
only_emitter(t) == trig[t] = "rand-step-btn" /\ app_mode = "USER"

\* A handler that runs every request for a step.
StepRequested_always(sel, ev) == TRUE

\* "if app_settings.selected_bins or kwargs['event_trig'] == 'rand-step-btn'"
StepRequested(sel, ev) == sel # <<>> \/ ev = "rand-step-btn"

\* __apply_step up to the call of _apply_step, whose arguments are the
\* switched selection; _apply_step first computes perc_step.  Without a
\* selection a step-btn request only opens the no-selection modal.
ApplyStepEntry(t) ==
    /\ pc[t] = "handler"
    /\ trig[t] \in StepEvents
    /\ IF StepRequested(selected_bins, trig[t])
         THEN /\ loc' = [loc EXCEPT ![t].sel = _switch(selected_bins),
                                    ![t].perc = PercStep(emitter_steps)]
              /\ Goto(t, "st_validate")
         ELSE /\ loc' = [loc EXCEPT ![t].modal = TRUE]
              /\ Goto(t, "format")
    /\ UNCHANGED <<curr_heatmap, safe_mode>>
    /\ UNCHANGED <<events, poll, b_descs, bin_sizes, library>>
    /\ UNCHANGED <<emitter_used, rules, symmetry, candidates, export_state>>
    /\ UNCHANGED <<locked, first_launch, app_mode, enforce_qnt, bins,
                   new_elite, emitter, chosen, emitter_steps, step_progress,
                   gen_counter, selected_bins>>

\* A validation that accepts every selection.
SelectionValid_any(enf, bs, sel) == TRUE

\* valid: with enforce_qnt every selected bin is one of _valid_bins().
SelectionValid(enf, bs, sel) ==
    enf => \A k \in 1..Len(sel) : sel[k] \in _valid_bins(bs)

Logged(t, phase) == [loc EXCEPT ![t].phases = Append(@, phase)]

\* A step that starts without update_elites(reset=True).
Validate_unreset(t) ==
    /\ pc[t] = "st_validate"
    /\ IF SelectionValid(enforce_qnt, bins, loc[t].sel)
         THEN /\ step_progress' = 0
              /\ Goto(t, "st_human")
              /\ UNCHANGED loc
         ELSE /\ loc' = [loc EXCEPT ![t].res = "False"]
              /\ Goto(t, "format")
              /\ UNCHANGED step_progress
    /\ UNCHANGED <<curr_heatmap, safe_mode>>
    /\ UNCHANGED <<events, poll, b_descs, bin_sizes, library>>
    /\ UNCHANGED <<emitter_used, rules, symmetry, candidates, export_state>>
    /\ UNCHANGED <<locked, first_launch, app_mode, enforce_qnt, bins,
                   new_elite, emitter, chosen, emitter_steps, gen_counter,
                   selected_bins>>

\* _apply_step's validation.  Valid: the step starts with
\* update_elites(reset=True) and step_progress = 0.  Invalid: _apply_step
\* returns False and __apply_step returns its unchanged outputs.
Validate(t) ==
    /\ pc[t] = "st_validate"
    /\ IF SelectionValid(enforce_qnt, bins, loc[t].sel)
         THEN /\ new_elite' = update_elites_reset(new_elite)
              /\ step_progress' = 0
              /\ loc' = Logged(t, "reset")
              /\ Goto(t, "st_human")
         ELSE /\ loc' = [loc EXCEPT ![t].res = "False"]
              /\ Goto(t, "format")
              /\ UNCHANGED <<new_elite, step_progress>>
    /\ UNCHANGED <<curr_heatmap, safe_mode>>
    /\ UNCHANGED <<events, poll, b_descs, bin_sizes, library>>
    /\ UNCHANGED <<emitter_used, rules, symmetry, candidates, export_state>>
    /\ UNCHANGED <<locked, first_launch, app_mode, enforce_qnt, bins,
                   emitter, chosen, emitter_steps, gen_counter,
                   selected_bins>>

\* mapelites.interactive_step(bin_idxs): offspring of the selected bins are
\* evaluated and inserted; nothing is produced without a selected bin.
interactive_step(bs, sel) == IF sel = <<>> THEN {bs} ELSE InsertOutcomes(bs)

\* The Candidates after an insertion that took the populations from bins to
\* bins': a new elite has the string the L-system produced and no cached
\* phenotype yet, and so has an offspring stored behind its bin's elite.
InsertCandidates(produced) ==
    /\ elite_string' = [b \in BinIdx |->
          IF bins'[b] # bins[b] THEN "orig" ELSE elite_string[b]]
    /\ elite_content' = [b \in BinIdx |->
          IF bins'[b] # bins[b] THEN "none" ELSE elite_content[b]]
    /\ uncached' \in IF produced /\ _valid_bins(bins') # {}
                       THEN {uncached, TRUE} ELSE {uncached}

\* An emitter phase that keeps the installed emitter.
EmitterForPhase_kept(only, current) == current

\* The emitter the emitter phase runs with: an only_emitter step installs a
\* RandomEmitter for the phase.
EmitterForPhase(only, current) == IF only THEN "Random" ELSE current

\* The human phase (skipped with only_emitter), step_progress += perc_step;
\* then "if only_emitter: tmp_emitter = mapelites.emitter; mapelites.emitter
\* = RandomEmitter()", and trange(app_settings.emitter_steps) fixes the
\* number of iterations.
HumanPhase(t) ==
    /\ pc[t] = "st_human"
    /\ IF only_emitter(t)
         THEN /\ UNCHANGED <<bins, candidates>>
              /\ loc' = [loc EXCEPT ![t].tmp = emitter,
                                    ![t].tmp_used = emitter_used,
                                    ![t].n = emitter_steps]
              /\ emitter_used' = FALSE
         ELSE /\ bins' \in interactive_step(bins, loc[t].sel)
              /\ InsertCandidates(loc[t].sel # <<>>)
              /\ UNCHANGED emitter_used
              /\ loc' = [Logged(t, "human") EXCEPT ![t].n = emitter_steps]
    /\ step_progress' = step_progress + loc[t].perc
    /\ emitter' = EmitterForPhase(only_emitter(t), emitter)
    /\ Goto(t, "st_emit")
    /\ UNCHANGED <<curr_heatmap, safe_mode>>
    /\ UNCHANGED <<events, poll, b_descs, bin_sizes, library>>
    /\ UNCHANGED <<rules, symmetry, export_state>>
    /\ UNCHANGED <<locked, first_launch, app_mode, enforce_qnt, new_elite,
                   chosen, emitter_steps, gen_counter, selected_bins>>

\* mapelites.emitter_step(): the installed emitter picks bins and their
\* offspring are inserted; nothing is produced from an empty archive.
emitter_step(bs) == IF _valid_bins(bs) = {} THEN {bs} ELSE InsertOutcomes(bs)

\* One iteration of the emitter loop; step_progress += perc_step.
EmitterIteration(t) ==
    /\ pc[t] = "st_emit"
    /\ loc[t].it < loc[t].n
    /\ bins' \in emitter_step(bins)
    /\ InsertCandidates(_valid_bins(bins) # {})
    /\ emitter_used' = TRUE
    /\ step_progress' = step_progress + loc[t].perc
    /\ loc' = [Logged(t, "emit") EXCEPT ![t].it = @ + 1,
                                        ![t].invoked = emitter]
    /\ UNCHANGED <<curr_heatmap, safe_mode>>
    /\ UNCHANGED <<events, poll, b_descs, bin_sizes, library>>
    /\ UNCHANGED <<rules, symmetry, export_state>>
    /\ UNCHANGED <<locked, first_launch, app_mode, enforce_qnt, new_elite,
                   emitter, chosen, emitter_steps, gen_counter,
                   selected_bins, pc, trig, arg>>

\* The loop is over: "if only_emitter: mapelites.emitter = tmp_emitter".
EmitterPhaseEnd(t) ==
    /\ pc[t] = "st_emit"
    /\ loc[t].it = loc[t].n
    /\ emitter' = IF only_emitter(t) THEN loc[t].tmp ELSE emitter
    /\ emitter_used' = IF only_emitter(t) THEN loc[t].tmp_used
                                          ELSE emitter_used
    /\ Goto(t, "st_update")
    /\ UNCHANGED <<curr_heatmap, safe_mode>>
    /\ UNCHANGED <<events, poll, b_descs, bin_sizes, library>>
    /\ UNCHANGED <<rules, symmetry, candidates, export_state>>
    /\ UNCHANGED <<locked, first_launch, app_mode, enforce_qnt, bins,
                   new_elite, chosen, emitter_steps, step_progress,
                   gen_counter, selected_bins, loc>>

\* A post-processing that builds no phenotype.
refresh_content_skipped(bs, str, cont) == cont

\* "for every bin, for every population: if non_empty: e = get_elite(); if
\* e._content is None: _set_structure(cs=e)": the elite of every non-empty
\* population that lacks its phenotype has it built from its string.
refresh_content(bs, str, cont) ==
    [b \in BinIdx |->
        IF non_empty(bs, b, "feasible") /\ cont[b] = "none"
          THEN _set_structure(str[b]) ELSE cont[b]]

\* mapelites.update_elites(), the elites' content is refreshed,
\* step_progress = -1, return True.
UpdateElites(t) ==
    /\ pc[t] = "st_update"
    /\ new_elite' = update_elites_flags(bins, new_elite)
    /\ bins' = update_elites_bins(bins)
    /\ elite_content' = refresh_content(bins', elite_string, elite_content)
    /\ step_progress' = -(Hundred \div 100)
    /\ loc' = [Logged(t, "update") EXCEPT ![t].res = "True",
                                          ![t].phases = Append(@, "refresh")]
    /\ Goto(t, "as_read")
    /\ UNCHANGED <<curr_heatmap, safe_mode>>
    /\ UNCHANGED <<events, poll, b_descs, bin_sizes, library>>
    /\ UNCHANGED <<emitter_used, rules, symmetry, elite_string, uncached, export_state>>
    /\ UNCHANGED <<locked, first_launch, app_mode, enforce_qnt, emitter,
                   chosen, emitter_steps, gen_counter, selected_bins>>

\* "app_settings.gen_counter += 1" reads the counter ...
GenCounterRead(t) ==
    /\ pc[t] = "as_read"
    /\ loc' = [loc EXCEPT ![t].gen = gen_counter]
    /\ Goto(t, "as_write")
    /\ UNCHANGED <<curr_heatmap, safe_mode>>
    /\ UNCHANGED <<events, poll, b_descs, bin_sizes, library>>
    /\ UNCHANGED <<emitter_used, rules, symmetry, candidates, export_state>>
    /\ UNCHANGED <<locked, first_launch, app_mode, enforce_qnt, bins,
                   new_elite, emitter, chosen, emitter_steps, step_progress,
                   gen_counter, selected_bins>>

\* Selected bins that are no longer valid are dropped from the selection.
PruneSelection(bs, sel) ==
    SelectSeq(sel, LAMBDA e : SwitchT(e) \in _valid_bins(bs))

\* "bins[app_settings.selected_bins[-1]].new_elite[pop]" for the displayed
\* population: the flag of the bin indexed by the selection's entry as it
\* is, (x, y) taken as [row, col].  The model keeps the bins of the grid's
\* first row; the flag of a bin of another row is either value.
new_elite_at(ne, idx) ==
    IF idx \in BinIdx THEN {ne[idx]["feasible"]} ELSE BOOLEAN

\* The preview, the content string and the properties are drawn again from
\* the elite of the last selected bin: if a selection is left and the flag
\* read is set.
Refreshes(ne, sel) ==
    IF sel = <<>> THEN {FALSE} ELSE new_elite_at(ne, sel[Len(sel)])

\* ... and stores the value read plus one; then the selection is pruned,
\* the preview is drawn again from get_elite(bin_idx=lb), lb the switched
\* last entry, if the flag read is set, and the heatmap is rebuilt.
GenCounterWrite(t) ==
    /\ pc[t] = "as_write"
    /\ gen_counter' = loc[t].gen + 1
    /\ selected_bins' = PruneSelection(bins, selected_bins)
    /\ \E r \in Refreshes(new_elite, selected_bins') :
          /\ loc' = [Logged(t, "inc") EXCEPT ![t].refreshed = r]
          /\ elite_content' =
                IF r THEN _get_elite_content(
                              symmetry, elite_string, elite_content,
                              SwitchT(selected_bins'[Len(selected_bins')]))
                     ELSE elite_content
    /\ Handled(t)
    /\ curr_heatmap' = PopLabel
    /\ UNCHANGED safe_mode
    /\ UNCHANGED <<events, poll, b_descs, bin_sizes, library>>
    /\ UNCHANGED <<emitter_used, rules, symmetry, elite_string, uncached,
                   export_state>>
    /\ UNCHANGED <<locked, first_launch, app_mode, enforce_qnt, bins,
                   new_elite, emitter, chosen, emitter_steps, step_progress>>

\* ------------------------------------------------------------ specification

\* The dispatcher: general_callback around its handlers.
Dispatcher(t) ==
    \/ Arrive(t)
    \/ CheckLock(t)
    \/ ReturnBusy(t)
    \/ Lock(t)
    \/ Unhandled(t)
    \/ FormatAndUnlock(t)

\* The generation step.
GenerationStep(t) ==
    \/ ApplyStepEntry(t)
    \/ Validate(t)
    \/ HumanPhase(t)
    \/ EmitterIteration(t)
    \/ EmitterPhaseEnd(t)
    \/ UpdateElites(t)
    \/ GenCounterRead(t)
    \/ GenCounterWrite(t)

\* Handlers that both specifications use.
CommonHandlers(t) ==
    \/ Reset(t)
    \/ Default(t)
    \/ UpdateContent(t)
    \/ UpdateSelection(t)
    \/ SelectionToggle(t)
    \/ SelectionTruncate(t)

\* The other handlers of a user's session.
SessionHandlers(t) ==
    \/ BcChange(t)
    \/ ClearSelection(t)
    \/ SetEmitter(t)
    \/ UpdateRules(t)
    \/ PopulationUpload(t)
    \/ Raised(t)

Next ==
    \/ \E t \in Threads :
          \/ Dispatcher(t)
          \/ GenerationStep(t)
          \/ CommonHandlers(t)
          \/ SessionHandlers(t)
    \/ ChangeEmitterSteps

\* One user's session, every event of it served by worker thread 1, one
\* invocation after the other; the slider's callback runs beside them.
SessionInit ==
    InitWith([t \in Threads |-> IF t = 1 THEN Events ELSE {}],
             {"USER", "DEV"})

Spec == SessionInit /\ [][Next]_vars

\* Events raised on every worker thread at once (several pages open):
\* page loads, bin clicks, the selection toggle, human steps and the
\* download button.
RaceEvents == {"None", "step-btn", "heatmap-plot", "selection-btn",
               "download-btn"}

RaceInit == InitWith([t \in Threads |-> RaceEvents], {"USER"})

RaceNext ==
    \E t \in Threads :
        \/ Dispatcher(t)
        \/ GenerationStep(t)
        \/ CommonHandlers(t)

SpecRace == RaceInit /\ [][RaceNext]_vars

\* Page loads and step requests contending for the lock on every worker
\* thread.
ContendEvents == {"None", "step-btn"}

ContendInit == InitWith([t \in Threads |-> ContendEvents], {"USER"})

ContendNext ==
    \E t \in Threads :
        \/ Arrive(t)
        \/ CheckLock(t)
        \/ ReturnBusy(t)
        \/ Lock(t)
        \/ FormatAndUnlock(t)
        \/ Reset(t)
        \/ Default(t)
        \/ ApplyStepEntry(t)

SpecContend == ContendInit /\ [][ContendNext]_vars

\* Page loads and automatic steps requested on every worker thread.
AutoEvents == {"None", "rand-step-btn", "download-btn"}

AutoInit == InitWith([t \in Threads |-> AutoEvents], {"USER"})

AutoNext ==
    \E t \in Threads :
        \/ Dispatcher(t)
        \/ Reset(t)
        \/ Default(t)
        \/ GenerationStep(t)

SpecAuto == AutoInit /\ [][AutoNext]_vars

\* A session in which the population to display is chosen, bins are
\* clicked and the page is loaded again.
HeatmapEvents == {"None", "heatmap-plot", "download-btn"} \cup PopEvents

HeatmapInit ==
    InitWith([t \in Threads |-> IF t = 1 THEN HeatmapEvents ELSE {}],
             {"USER"})

HeatmapNext ==
    \E t \in Threads :
        \/ Dispatcher(t)
        \/ Reset(t)
        \/ Default(t)
        \/ UpdateContent(t)
        \/ UpdateSelection(t)
        \/ UpdateHeatmap(t)

SpecHeatmap == HeatmapInit /\ [][HeatmapNext]_vars

\* A session in which rules are submitted, the safe mode is toggled and
\* bins are clicked.
SafeModeEvents == {"None", "heatmap-plot", "update-rules-btn", "tsrm-y-btn",
                   "download-btn"}

SafeModeInit ==
    InitWith([t \in Threads |-> IF t = 1 THEN SafeModeEvents ELSE {}],
             {"USER"})

SafeModeNext ==
    \E t \in Threads :
        \/ Dispatcher(t)
        \/ Reset(t)
        \/ Default(t)
        \/ UpdateContent(t)
        \/ UpdateSelection(t)
        \/ UpdateRules(t)
        \/ ToggleUnsafeMode(t)

SpecSafeMode == SafeModeInit /\ [][SafeModeNext]_vars

\* A session in developer mode in which the emitter is chosen from the
\* menu between automatic steps.
EmitterSessionEvents == {"None", "rand-step-btn"} \cup EmitterEvents

EmitterInit ==
    InitWith([t \in Threads |-> IF t = 1 THEN EmitterSessionEvents ELSE {}],
             {"DEV"})

EmitterNext ==
    \E t \in Threads :
        \/ Arrive(t)
        \/ CheckLock(t)
        \/ Lock(t)
        \/ FormatAndUnlock(t)
        \/ Reset(t)
        \/ Default(t)
        \/ SetEmitter(t)
        \/ GenerationStep(t)

SpecEmitter == EmitterInit /\ [][EmitterNext]_vars

\* A session with a symmetry chosen, bins clicked, steps applied and the
\* selected spaceship or the whole archive downloaded: the download
\* callbacks run beside general_callback, which the download button
\* triggers as well.
ExportEvents == {"None", "heatmap-plot", "step-btn", "download-btn"}
                  \cup SymmetryEvents

ExportInit ==
    InitWith([t \in Threads |-> IF t = 1 THEN ExportEvents ELSE {}],
             {"USER"})

ExportNext ==
    \/ \E t \in Threads :
          \/ Dispatcher(t)
          \/ GenerationStep(t)
          \/ Reset(t)
          \/ Default(t)
          \/ UpdateContent(t)
          \/ UpdateSelection(t)
          \/ ApplySymmetry(t)
    \/ ExportRequest
    \/ ExportRead
    \/ ExportCopy
    \/ ExportHull
    \/ ExportFails
    \/ DownloadMapelites

SpecExport == ExportInit /\ [][ExportNext]_vars

\* A page that polls interval_updates while bins are clicked and the
\* selected spaceship is downloaded.
PollEvents == {"None", "heatmap-plot", "download-btn"}

PollInit ==
    InitWith([t \in Threads |-> IF t = 1 THEN PollEvents ELSE {}], {"USER"})

PollNext ==
    \/ \E t \in Threads :
          \/ Dispatcher(t)
          \/ Reset(t)
          \/ Default(t)
          \/ UpdateContent(t)
          \/ UpdateSelection(t)
    \/ ExportRequest
    \/ ExportRead
    \/ ExportCopy
    \/ ExportHull
    \/ ExportFails
    \/ IntervalUpdates

SpecPoll == PollInit /\ [][PollNext]_vars

\* A session in which bins are clicked, the descriptors of both axes are
\* changed and the download button is pressed.
DescriptorEvents == {"None", "heatmap-plot", "download-btn"} \cup BcEvents

DescriptorInit ==
    InitWith([t \in Threads |-> IF t = 1 THEN DescriptorEvents ELSE {}],
             {"USER"})

DescriptorNext ==
    \E t \in Threads :
        \/ Dispatcher(t)
        \/ Reset(t)
        \/ Default(t)
        \/ UpdateContent(t)
        \/ UpdateSelection(t)
        \/ BcChange(t)

SpecDescriptors == DescriptorInit /\ [][DescriptorNext]_vars

\* ------------------------------------------------- the archive's Candidates

\* Candidates are created only while fewer than this many were.
MaxCandidates == 3

\* The capacity of a population.
bin_capacity == 2

\* The fitness values the evaluation gives, and the bodies Candidates have.
\* The behaviour descriptors of a body are fixed: for each descriptor of the
\* catalog, the quarter of the descriptor's bounds its value lies at (5 is
\* a value above the bounds).
Fitnesses == {1, 2}
Shapes == << <<0, 1, 2, 3>>, <<3, 0, 5, 0>> >>

Created(n) ==
    [id : {n}, fitness : Fitnesses, feasible : BOOLEAN,
     shape : 1..Len(Shapes)]

CatalogIndex(name) ==
    CHOOSE k \in 1..Len(behavior_descriptors) :
        behavior_descriptors[k].name = name

\* The value of descriptor `name` for Candidate c, from the descriptor's
\* lower bound, in units.
Offset(c, name) ==
    (Shapes[c.shape][CatalogIndex(name)]
        * BoundRange(DescriptorNamed(name))) \div 4

RECURSIVE SumTo(_, _)
SumTo(sz, k) == IF k = 0 THEN 0 ELSE sz[k] + SumTo(sz, k - 1)

\* A search that takes a bin's range without its lower end.
BinAlong_open(sz, off) ==
    {k \in 1..Len(sz) : SumTo(sz, k - 1) < off /\ off < SumTo(sz, k)}

\* The bins along one axis whose range holds the value: the search of the
\* cumulative bin sizes.
BinAlong(sz, off) ==
    {k \in 1..Len(sz) : SumTo(sz, k - 1) <= off /\ off < SumTo(sz, k)}

\* The bin a Candidate's descriptors fall in, if any.
Located(sizes, names, c) ==
    {<<i - 1, j - 1>> : i \in BinAlong(sizes[1], Offset(c, names[1])),
                        j \in BinAlong(sizes[2], Offset(c, names[2]))}

\* The population a Candidate is inserted in: by its feasibility flag.
PopOf_feasible(c) == "feasible"
PopOf(c) == IF c.feasible THEN "feasible" ELSE "infeasible"

Member(P, id) == CHOOSE m \in P.members : m.id = id

\* The member a full population gives up: one of lowest fitness, the oldest
\* of them.
Worst(ms) ==
    CHOOSE m \in ms :
        \A o \in ms : m.fitness < o.fitness
                          \/ (m.fitness = o.fitness /\ m.id <= o.id)

\* A Candidate just added replaces the elite e: it does unless the elite is
\* fitter (of two equally fit, the newer is the elite).
Outranks_never(c, e) == FALSE
Outranks(c, e) == c.fitness >= e.fitness

\* Insertion in a population: below capacity the Candidate is added; at
\* capacity it replaces the lowest-fitness member if it is strictly
\* better, else it is rejected.
insert_cs(P, c) ==
    LET room == Cardinality(P.members) < bin_capacity
        added == room \/ c.fitness > Worst(P.members).fitness
        kept == IF room THEN P.members ELSE P.members \ {Worst(P.members)}
    IN  IF ~added THEN P
        ELSE [members |-> kept \cup {c},
              elite |-> IF P.elite = 0 \/ Outranks(c, Member(P, P.elite))
                          THEN c.id ELSE P.elite]

\* MAPElites insertion: the Candidate goes to the population of its
\* feasibility in the bin its descriptors fall in; outside the grid's
\* bounds it is dropped.
insert(cs, sizes, names, c) ==
    LET at == Located(sizes, names, c) IN
    IF at = {} THEN cs
    ELSE [cs EXCEPT ![CHOOSE b \in at : TRUE][PopOf(c)] = insert_cs(@, c)]

AllMembers(cs) ==
    UNION {cs[b][p].members : b \in DOMAIN cs, p \in AllPops}

\* The Candidates ms are inserted in a grid, oldest first.
RECURSIVE Reinserted(_, _, _, _)
Reinserted(cs, sizes, names, ms) ==
    IF ms = {} THEN cs
    ELSE LET m == CHOOSE x \in ms : \A y \in ms : x.id <= y.id IN
         Reinserted(insert(cs, sizes, names, m), sizes, names, ms \ {m})

\* The sizes along one axis after the k-th bin's range is split in half.
SplitAt(sz, k) ==
    [n \in 1..(Len(sz) + 1) |->
        IF n < k THEN sz[n]
        ELSE IF n \in {k, k + 1} THEN sz[k] \div 2
        ELSE sz[n - 1]]

\* MAPElites.subdivide_range(bin_idx): the bin's range is split in half
\* along both axes ...
Halved(sizes, b) ==
    <<SplitAt(sizes[1], b[1] + 1), SplitAt(sizes[2], b[2] + 1)>>

\* The children of bin b in the grid it was split in.
Children(b) == {b[1], b[1] + 1} \X {b[2], b[2] + 1}

\* What the operations of the archive leave alone.
program == <<locked, first_launch, app_mode, enforce_qnt, bins, new_elite,
             emitter, chosen, emitter_steps, step_progress, gen_counter,
             selected_bins, pc, trig, arg, loc, events, emitter_used,
             rules, symmetry, candidates, export_state, poll,
             curr_heatmap, safe_mode>>

\* A Candidate is created, evaluated and inserted (an emitter step, or the
\* generation of the initial population).
Insert ==
    /\ next_id <= MaxCandidates
    /\ \E c \in Created(next_id) :
          cells' = insert(cells, bin_sizes, b_descs, c)
    /\ next_id' = next_id + 1
    /\ UNCHANGED <<program, b_descs, bin_sizes, buffer, observations>>

\* ... and the members of the grid's bins are placed again by their
\* descriptors against the narrower ranges.
SubdivideRange ==
    /\ Len(bin_sizes[1]) - bin_qnt[1] < MaxSubdivisions
    /\ \E b \in Cells(bin_sizes) :
          /\ bin_sizes' = Halved(bin_sizes, b)
          /\ cells' = Reinserted(EmptyGrid(bin_sizes'), bin_sizes', b_descs,
                                 AllMembers(cells))
    /\ UNCHANGED <<program, b_descs, next_id, buffer, observations>>

\* MAPElites.update_behavior_descriptors((d0, d1)), with the descriptors
\* the model's events name: the grid is rebuilt for the new axes and every
\* Candidate inserted again.
UpdateBehaviorDescriptors ==
    /\ \E ev \in BcEvents :
          /\ b_descs' = [b_descs EXCEPT ![BcAxis(ev)] = BcName(ev)]
          /\ b_descs' # b_descs
    /\ bin_sizes' = UniformSizes(b_descs')
    /\ cells' = Reinserted(EmptyGrid(bin_sizes'), bin_sizes', b_descs',
                           AllMembers(cells))
    /\ UNCHANGED <<program, next_id, buffer, observations>>

\* MAPElites.reset(): every population is discarded; the initial
\* population is then generated and inserted anew.
ResetArchive ==
    /\ cells' = EmptyGrid(bin_sizes)
    /\ next_id' = 1
    /\ cells # cells'
    /\ UNCHANGED <<program, b_descs, bin_sizes, buffer, observations>>

ArchiveInit == InitWith([t \in Threads |-> {}], {"USER"})

ArchiveNext ==
    \/ Insert
    \/ SubdivideRange
    \/ UpdateBehaviorDescriptors
    \/ ResetArchive

SpecArchive == ArchiveInit /\ [][ArchiveNext]_vars

\* ------------------------------------------------ the subdivision handler

\* "for bin_idx in bin_idxs: subdivide_range(bin_idx=bin_idx)": every index
\* of the list is applied to the grid the subdivisions before it have left.
RECURSIVE SubdividedAll(_, _)
SubdividedAll(sizes, bin_idxs) ==
    IF bin_idxs = <<>> THEN sizes
    ELSE SubdividedAll(Halved(sizes, Head(bin_idxs)), Tail(bin_idxs))

\* __subdivide: the selection's indices are switched to (row, col) once,
\* each is handed to subdivide_range in turn, the heatmap is rebuilt and the
\* selection is emptied.  The archive's solutions are placed again in the
\* bins of the new grid.
Subdivide(t) ==
    /\ pc[t] = "handler"
    /\ trig[t] = "subdivide-btn"
    /\ bin_sizes' = SubdividedAll(bin_sizes, _switch(selected_bins))
    /\ cells' = Reinserted(EmptyGrid(bin_sizes'), bin_sizes', b_descs,
                           AllMembers(cells))
    /\ IF selected_bins = <<>>
         THEN UNCHANGED <<bins, new_elite, elite_content>>
         ELSE /\ bins' \in Rebinned(bins)
              /\ new_elite' = NoNewElite
              /\ elite_content' = FreshContent(bins')
    /\ selected_bins' = <<>>
    /\ Handled(t)
    /\ curr_heatmap' = PopLabel
    /\ UNCHANGED safe_mode
    /\ UNCHANGED <<events, poll, b_descs, next_id, buffer, observations>>
    /\ UNCHANGED <<emitter_used, rules, symmetry, elite_string, uncached,
                   export_state>>
    /\ UNCHANGED <<locked, first_launch, app_mode, enforce_qnt, emitter,
                   chosen, emitter_steps, step_progress, gen_counter, loc>>

\* A session in which bins are clicked, several bins are allowed in the
\* selection and the selected bins are subdivided.
SubdivideEvents == {"None", "heatmap-plot", "selection-btn", "subdivide-btn",
                    "download-btn"}

SubdivideInit ==
    InitWith([t \in Threads |-> IF t = 1 THEN SubdivideEvents ELSE {}],
             {"USER"})

SubdivideNext ==
    \E t \in Threads :
        \/ Dispatcher(t)
        \/ Reset(t)
        \/ Default(t)
        \/ UpdateContent(t)
        \/ UpdateSelection(t)
        \/ SelectionToggle(t)
        \/ SelectionTruncate(t)
        \/ Subdivide(t)

SpecSubdivide == SubdivideInit /\ [][SubdivideNext]_vars

\* --------------------------------------------------------------- the Buffer

\* The labels observed for the key.
Labels == 0..4

\* A merge that takes the mean of the stored value and the new one.
mean_merge_pairwise(entry, v) ==
    [value |-> IF entry.n = 0 THEN <<v, 1>>
               ELSE <<entry.value[1] + v * entry.value[2],
                      2 * entry.value[2]>>,
     n |-> entry.n + 1]

\* Buffer insertion with merge_method=mean_merge: the entry's value, a
\* fraction <<numerator, denominator>>, becomes the mean of the n values
\* merged so far and the new one, and the count grows by one.
mean_merge(entry, v) ==
    [value |-> <<entry.value[1] * entry.n + v * entry.value[2],
                 entry.value[2] * (entry.n + 1)>>,
     n |-> entry.n + 1]

\* The entry after the values of a sequence were inserted in order.
RECURSIVE InsertedAll(_, _)
InsertedAll(entry, vs) ==
    IF vs = <<>> THEN entry
    ELSE InsertedAll(mean_merge(entry, Head(vs)), Tail(vs))

\* Two entries with equal merged values and counts.
SameEntry(x, y) ==
    /\ x.value[1] * y.value[2] = y.value[1] * x.value[2]
    /\ x.n = y.n

\* An observation of the key is inserted.
BufferInsert ==
    /\ buffer.n < Len(observations)
    /\ buffer' = mean_merge(buffer, observations[buffer.n + 1])
    /\ UNCHANGED <<program, b_descs, bin_sizes, cells, next_id,
                   observations>>

\* Three observations of one key, in any order.
BufferInit ==
    /\ ProgramInit([t \in Threads |-> {}], {"USER"})
    /\ ArchiveEmpty
    /\ buffer = NoEntry
    /\ observations \in [1..3 -> Labels]

BufferNext == BufferInsert

SpecBuffer == BufferInit /\ [][BufferNext]_vars

\* ------------------------------------------------------------------ claims

\* Where an invocation stands between lock() and unlock().
StepLabels == {"st_validate", "st_human", "st_emit", "st_update", "as_read",
               "as_write"}
InsideLock ==
    {"handler", "uc_select", "sel_trunc", "raised", "format"} \cup StepLabels

\* The invocation of thread t takes a step.
Moves(t) == pc'[t] # pc[t] \/ loc'[t] # loc[t]

\* What C3, C5 and C7 require a refused request to leave alone.
Generation == <<bins, new_elite, emitter, enforce_qnt, gen_counter>>

\* C1: at any moment at most one invocation of the dispatcher stands
\* between its lock() and its unlock().
C1_MutualExclusion ==
    Cardinality({t \in Threads : pc[t] \in InsideLock}) <= 1

\* C2: an invocation that acquired the lock and dispatched a handler
\* registered in triggers_map leaves the lock free when it ends, whether the
\* handler returned or raised.
C2_ReleasedWhenEnded ==
    [][\A t \in Threads :
          (pc[t] \in InsideLock /\ trig[t] \in triggers_map
              /\ pc'[t] = "idle") => ~locked']_vars

\* C3: an invocation that finds the lock held dispatches no handler, leaves
\* the archive, the generation counter and the selection as they are, and
\* ends without its request being kept for later.
C3_BusyIsNoOp ==
    [][\A t \in Threads :
          /\ (pc[t] = "check" /\ locked /\ Moves(t))
                => /\ pc'[t] = "busy"
                   /\ UNCHANGED <<Generation, selected_bins, locked>>
          /\ (pc[t] = "busy" /\ Moves(t))
                => /\ pc'[t] = "idle"
                   /\ trig'[t] = NoArg
                   /\ UNCHANGED <<Generation, selected_bins, locked>>]_vars

\* C3's case: an invocation found the lock held and is about to return.
C3_Witness == \E t \in Threads : pc[t] = "busy" /\ trig[t] = "step-btn"

\* C4: while an invocation runs the phases of a step, the lock is held.
C4_LockHeldDuringStep ==
    \A t \in Threads : pc[t] \in StepLabels => locked

\* C5: with enforce_qnt on, a step whose selection holds a bin that is not
\* valid is refused before anything is changed: _apply_step returns False
\* with no phase run, and the invocation then ends leaving the archive, the
\* progress value and the generation counter as they were.
C5_InvalidBinRefused ==
    [][\A t \in Threads :
          /\ (/\ pc[t] = "st_validate"
              /\ enforce_qnt
              /\ \E k \in 1..Len(loc[t].sel) :
                     loc[t].sel[k] \notin _valid_bins(bins)
              /\ Moves(t))
                => /\ pc'[t] = "format"
                   /\ loc'[t].res = "False"
                   /\ loc'[t].phases = <<>>
                   /\ UNCHANGED <<Generation, step_progress>>
          /\ (pc[t] = "format" /\ loc[t].res = "False" /\ Moves(t))
                => UNCHANGED <<Generation, step_progress>>]_vars

\* C5's case: with enforce_qnt on, a step over a selected bin that is not
\* valid has been refused.
C5_Witness ==
    \E t \in Threads :
        /\ pc[t] = "format"
        /\ trig[t] = "step-btn"
        /\ loc[t].res = "False"
        /\ enforce_qnt
        /\ \E k \in 1..Len(loc[t].sel) : loc[t].sel[k] \notin _valid_bins(bins)

\* C6: with enforce_qnt on, a step whose selection spans two or more bins
\* is refused: _apply_step returns False with no phase run.
C6_MultiBinRefused ==
    [][\A t \in Threads :
          (/\ pc[t] = "st_validate"
           /\ enforce_qnt
           /\ Len(loc[t].sel) >= 2
           /\ Moves(t))
             => /\ pc'[t] = "format"
                /\ loc'[t].res = "False"
                /\ UNCHANGED <<Generation, step_progress>>]_vars

\* C7: step-btn with an empty selection runs no step: the no-selection
\* modal is opened, and the archive and the generation counter stay as they
\* are until the invocation has ended.
C7_NoSelectionNoStep ==
    [][\A t \in Threads :
          /\ (/\ pc[t] = "handler"
              /\ trig[t] = "step-btn"
              /\ selected_bins = <<>>
              /\ Moves(t))
                => /\ pc'[t] = "format"
                   /\ loc'[t].modal
                   /\ loc'[t].phases = <<>>
                   /\ UNCHANGED <<Generation, step_progress>>
          /\ (pc[t] = "format" /\ loc[t].modal /\ Moves(t))
                => UNCHANGED <<Generation, step_progress>>]_vars

\* C7's case: a step-btn request without a selection has opened the modal.
C7_Witness ==
    \E t \in Threads :
        pc[t] = "format" /\ trig[t] = "step-btn" /\ loc[t].modal

\* C8: the generation counter counts the accepted steps: an accepted step
\* raises it by exactly one, a reset, a population load and a safe-mode
\* toggle set it to 0, and nothing else changes it.
C8_CounterCountsSteps ==
    [][/\ \A t \in Threads :
             (pc[t] = "as_write" /\ Moves(t))
                => gen_counter' = gen_counter + 1
       /\ gen_counter' # gen_counter =>
             \E t \in Threads :
                 /\ Moves(t)
                 /\ \/ pc[t] = "as_write"
                    \/ /\ pc[t] = "handler"
                       /\ trig[t] \in {"reset-btn", "popupload-data",
                                       "tsrm-y-btn"}
                       /\ gen_counter' = 0]_vars

\* The rank of a phase in the order of a step.
PhaseRank(ph) ==
    CASE ph = "reset" -> 1
      [] ph = "human" -> 2
      [] ph = "emit" -> 3
      [] ph = "update" -> 4
      [] ph = "refresh" -> 5
      [] ph = "inc" -> 6

\* C9: within one step the phases come in this order: the new_elite flags
\* are cleared first, the human phase comes before every emitter iteration,
\* update_elites() after the last of them, then the content refresh, and
\* the increment of the generation counter last.
C9_PhaseOrder ==
    \A t \in Threads :
        LET ph == loc[t].phases IN
        /\ ph # <<>> => ph[1] = "reset"
        /\ \A i, j \in 1..Len(ph) :
              i < j => \/ PhaseRank(ph[i]) < PhaseRank(ph[j])
                       \/ ph[i] = "emit" /\ ph[j] = "emit"
        /\ \A i \in 1..Len(ph) :
              /\ ph[i] = "refresh" => i > 1 /\ ph[i - 1] = "update"
              /\ ph[i] = "inc" => i > 1 /\ ph[i - 1] = "refresh"
              /\ ph[i] = "update" => loc[t].it = loc[t].n

\* C9's case: a step with a human phase and an emitter iteration has gone
\* through every phase.
C9_Witness ==
    \E t \in Threads :
        LET ph == loc[t].phases IN
        /\ Len(ph) = 6
        /\ ph[2] = "human"
        /\ ph[3] = "emit"
        /\ ph[6] = "inc"

LeavesHumanPhase(t) == pc[t] = "st_human" /\ pc'[t] # "st_human"

\* C11 as stated: a rand-step-btn step never runs the human phase, in
\* every application mode and whatever the selection, and a step-btn step
\* always runs it.
C11_RandStepSkipsHuman ==
    [][\A t \in Threads :
          LeavesHumanPhase(t) =>
              /\ trig[t] = "rand-step-btn" =>
                    /\ loc'[t].phases = loc[t].phases
                    /\ bins' = bins
              /\ trig[t] = "step-btn" =>
                    /\ loc'[t].phases = Append(loc[t].phases, "human")
                    /\ bins' \in interactive_step(bins, loc[t].sel)]_vars

\* C11: a rand-step-btn step skips the human phase when the application is
\* in user mode; in developer mode it runs interactive_step on the current
\* selection as a step-btn step does; a step-btn step always runs it.
C11_RandStepSkipsHumanInUserMode ==
    [][\A t \in Threads :
          LeavesHumanPhase(t) =>
              /\ (trig[t] = "rand-step-btn" /\ app_mode = "USER") =>
                    /\ loc'[t].phases = loc[t].phases
                    /\ bins' = bins
              /\ (trig[t] = "step-btn"
                    \/ (trig[t] = "rand-step-btn" /\ app_mode = "DEV")) =>
                    /\ loc'[t].phases = Append(loc[t].phases, "human")
                    /\ bins' \in interactive_step(bins, loc[t].sel)]_vars

\* C11 witness: a rand-step-btn step in developer mode went through the
\* human phase with a bin selected.
C11_Witness ==
    \E t \in Threads :
        /\ trig[t] = "rand-step-btn"
        /\ app_mode = "DEV"
        /\ loc[t].sel # <<>>
        /\ \E k \in 1..Len(loc[t].phases) : loc[t].phases[k] = "human"

\* The step of invocation t ends _apply_step's post-processing.
EndsPostProcessing(t) == pc[t] = "st_update" /\ pc'[t] = "as_read"

\* Every elite of a non-empty population has its cached phenotype.
ElitesCached(bs, cont) ==
    \A b \in BinIdx : non_empty(bs, b, "feasible") => cont[b] # "none"

\* C12 as stated: after the post-processing of an accepted step no
\* Candidate held in any bin's population is missing its cached phenotype.
C12_NoCandidateUncached ==
    [][\A t \in Threads :
          EndsPostProcessing(t) =>
              ElitesCached(bins', elite_content') /\ ~uncached']_vars

\* C12: the post-processing of an accepted step builds the cached phenotype
\* of the elite of every non-empty population that lacks one, so that when
\* it ends every such elite has its phenotype; the other members of a
\* population are not visited.
C12_NoEliteUncached ==
    [][\A t \in Threads :
          EndsPostProcessing(t) =>
              /\ ElitesCached(bins', elite_content')
              /\ uncached' = uncached
              /\ \A b \in BinIdx :
                    elite_content[b] # "none" =>
                        elite_content'[b] = elite_content[b]]_vars

\* C12 witness: a step that put a new elite into a bin has ended its
\* post-processing, and the new elite has its phenotype.
C12_Witness ==
    \E t \in Threads : \E b \in BinIdx :
        /\ pc[t] = "as_read"
        /\ new_elite[b]["feasible"]
        /\ elite_content[b] = "orig"

\* The step of invocation t is __emitter running to its return.
RunsSetEmitter(t) ==
    pc[t] = "handler" /\ trig[t] \in EmitterEvents /\ pc'[t] = "format"

\* C13 as stated: for each of the nine emitter names a set-emitter event
\* installs an emitter of the named variant, so that the archive's emitter
\* is the variant named by the label the event returns.
C13_NamedEmitterInstalled ==
    [][\A t \in Threads :
          RunsSetEmitter(t) =>
              /\ loc'[t].label = emitter_name(trig[t])
              /\ loc'[t].label \in EmitterKinds
              /\ emitter' = loc'[t].label]_vars

\* C14 as stated: a set-emitter event changes nothing but the archive's
\* emitter (the bins and their Candidates, the generation counter and the
\* selection are unchanged), and the emitter then installed is a new
\* instance with fresh internal state, also when the same variant is
\* selected again: no statistics of the previous emitter are carried over.
C14_FreshEmitterOnly ==
    [][\A t \in Threads :
          RunsSetEmitter(t) =>
              /\ UNCHANGED <<bins, new_elite, enforce_qnt, candidates>>
              /\ UNCHANGED <<gen_counter, selected_bins>>
              /\ ~emitter_used']_vars

\* C15 as stated: the archive and its Candidates are mutated only by a
\* thread that holds the process lock; no callback outside the dispatcher
\* (download_content in particular) writes to a Candidate of the archive.
C15_MutationOnlyUnderLock ==
    [][(archive' # archive \/ candidates' # candidates) =>
          \E t \in Threads : pc[t] \in InsideLock /\ Moves(t) /\ locked]_vars

\* C16 as stated: download_mapelites reads the archive out only while the
\* process lock is free.
C16_DumpOnlyWhenLockFree == dumped # "held"

\* Where a step stands between its first and its last write to the
\* archive.
StepMutating == {"st_human", "st_emit", "st_update"}

\* C17 as stated: the export lock guards the blueprint export: the export's
\* read-out of the selected elite never overlaps a step's mutation of the
\* archive.
C17_ExportNeverOverlapsStep ==
    ~(xpc = "copy" /\ \E t \in Threads : pc[t] \in StepMutating)

\* C18 as stated: every exported blueprint is built from the feasible elite
\* of the most recently selected bin, no infeasible Candidate is exported,
\* and an export request with an empty selection produces no file and
\* changes no state: when the request is over the application is as it was.
C18_ExportsFeasibleEliteOrNothing ==
    [][/\ (xpc = "thumb" /\ xpc' = "copy") =>
              /\ selected_bins # <<>>
              /\ exported'.bin = SwitchT(selected_bins[Len(selected_bins)])
              /\ exported'.pop = "feasible"
              /\ non_empty(bins, exported'.bin, "feasible")
       /\ (xpc = "idle" /\ selected_bins = <<>>) => xpc' = "idle"
       /\ \A t \in Threads :
             (trig[t] = "download-btn" /\ selected_bins = <<>>
                /\ pc[t] \in InsideLock /\ pc'[t] = "idle") =>
                 /\ ~locked'
                 /\ UNCHANGED <<archive, candidates, gen_counter,
                                selected_bins, export_state>>]_vars

\* C19 as stated: the cached phenotype of every Candidate is absent or was
\* built from the Candidate's current genotype string, also after a preview
\* and after an export with a symmetry set.
C19_PhenotypeOfCurrentString ==
    \A b \in BinIdx :
        elite_content[b] \in {"none", _set_structure(elite_string[b])}

\* C20 as stated: an update-rules request whose text yields no valid
\* ruleset (validation fails, or a line is not three fields with a numeric
\* p) is rejected as a logged failure: the handler returns, the ruleset
\* that was active stays installed, and the rules text returned is that
\* ruleset's.
C20_BadRulesRejected ==
    [][\A t \in Threads :
          (/\ pc[t] = "handler"
           /\ trig[t] = "update-rules-btn"
           /\ ~(ParsesAsRules(arg[t]) /\ Validates(arg[t]))
           /\ Moves(t)) =>
              /\ pc'[t] = "format"
              /\ rules' = rules
              /\ loc'[t].rules_out = rules]_vars

\* The invocation of thread t is a population upload whose file cannot be
\* loaded, between the call of the handler and the end of the invocation.
InFailedLoad(t) ==
    /\ pc[t] \in {"handler", "raised"}
    /\ trig[t] = "popupload-data"
    /\ LoadFails(arg[t])

\* C21: when a population load fails, the archive's bins, the generation
\* counter and the selection are exactly as before the request.
C21_FailedLoadIsAtomic ==
    [][\A t \in Threads :
          (InFailedLoad(t) /\ Moves(t)) =>
              UNCHANGED <<bins, new_elite, candidates, gen_counter,
                          selected_bins>>]_vars

\* C21 witness: a load has failed in a session that had a bin selected and
\* a generation counted.
C21_Witness ==
    \E t \in Threads :
        /\ InFailedLoad(t)
        /\ pc[t] = "raised"
        /\ selected_bins # <<>>
        /\ gen_counter > 0

\* C22: every interval_updates poll reports the mutating controls as
\* disabled exactly when the process lock is held at the time of the poll,
\* the blueprint download button also while an export is running; the poll
\* changes neither the lock nor the archive.
C22_PollReportsLock ==
    [][poll' # poll =>
          /\ poll'.controls = locked
          /\ poll'.download_btn =
                (locked \/ download_semaphore.running = "YES")
          /\ UNCHANGED <<locked, archive, candidates, gen_counter,
                         selected_bins, download_semaphore>>]_vars

\* C22 witness: a poll taken while an export was running and the process
\* lock was free reported only the download button as disabled.
C22_Witness ==
    /\ poll.download_btn
    /\ ~poll.controls
    /\ download_semaphore.running = "YES"
    /\ ~locked

\* No invocation is between its arrival and its return.
Quiescent == \A t \in Threads : pc[t] = "idle"

\* C23 as stated: in every state reached by a sequence of handled events,
\* whenever single-bin selection is enforced the selection holds at most
\* one bin; turning the enforcement on cuts a longer selection to its most
\* recently selected bin.
C23_EnforcedSelectionIsSingle ==
    Quiescent => (enforce_qnt => Len(selected_bins) <= 1)
\* The handler of a descriptor-change event runs.
RunsBcChange(t) == pc[t] = "handler" /\ trig[t] \in BcEvents /\ Moves(t)

\* C29: a descriptor-change event for one axis sets that axis to the
\* descriptor the event names and leaves the other axis at the archive's
\* active descriptor, and both active descriptors are in the catalog.
C29_OtherAxisKept ==
    [][\A t \in Threads :
          RunsBcChange(t) =>
              /\ b_descs' = [b_descs EXCEPT
                                ![BcAxis(trig[t])] = BcName(trig[t])]
              /\ \A a \in Axes : b_descs'[a] \in CatalogNames]_vars
\* C30: once an event was handled, every bin index left in the selection
\* refers to a bin that holds a solution.
C30_SelectionRefersToFilledBins ==
    Quiescent =>
        \A k \in 1..Len(selected_bins) :
            SwitchT(selected_bins[k]) \in _valid_bins(bins)
\* C24: in every bin and each of its two populations the tracked elite is
\* a member of the population that no other member exceeds in fitness (and
\* an empty population has no elite).
C24_EliteIsFittest ==
    \A b \in DOMAIN cells, p \in AllPops :
        LET P == cells[b][p] IN
        IF P.members = {} THEN P.elite = 0
        ELSE \E m \in P.members :
                /\ m.id = P.elite
                /\ \A o \in P.members : o.fitness <= m.fitness

\* A full population has given up its oldest member for a fitter one, which
\* is now its elite.
C24_Witness ==
    \E b \in DOMAIN cells, p \in AllPops :
        LET P == cells[b][p] IN
        /\ Cardinality(P.members) = bin_capacity
        /\ \A m \in P.members : m.id > 1
        /\ P.elite = next_id - 1
        /\ \E m \in P.members : m.fitness < Member(P, P.elite).fitness
\* C25: every member of a feasible population is feasible and every member
\* of an infeasible population is infeasible, and a Candidate that is in the
\* archive before and after a step has the feasibility it had.
C25_FeasibilitySeparation ==
    /\ [](\A b \in DOMAIN cells, p \in AllPops :
              \A m \in cells[b][p].members :
                  m.feasible <=> (p = "feasible"))
    /\ [][\A m \in AllMembers(cells), n \in AllMembers(cells') :
              m.id = n.id => m.feasible = n.feasible]_vars

\* A bin of a subdivided grid holds feasible and infeasible Candidates.
C25_Witness ==
    /\ Len(bin_sizes[1]) > bin_qnt[1]
    /\ \E b \in DOMAIN cells :
          \A p \in AllPops : cells[b][p].members # {}
\* The number of Candidates in a grid, each counted once for every
\* population of a bin it is in.
TotalCount(cs) ==
    Cardinality(UNION {{<<b, p, m>> : m \in cs[b][p].members} :
                          b \in DOMAIN cs, p \in AllPops})

\* The bins of a grid whose population p holds Candidate m.
Holding(cs, p, m) == {c \in DOMAIN cs : m \in cs[c][p].members}

\* The step subdivides bin b.
Subdivides(b) ==
    /\ b_descs' = b_descs
    /\ bin_sizes' # bin_sizes
    /\ bin_sizes' = Halved(bin_sizes, b)

\* C26: a subdivision leaves the number of Candidates in the archive as it
\* was, and every member of a population of the subdivided bin is afterwards
\* in that population of exactly one bin, which is a child of the bin.
C26_SubdivisionConserves ==
    [][\A b \in DOMAIN cells :
          Subdivides(b) =>
              /\ TotalCount(cells') = TotalCount(cells)
              /\ \A p \in AllPops : \A m \in cells[b][p].members :
                    /\ Cardinality(Holding(cells', p, m)) = 1
                    /\ Holding(cells', p, m) \subseteq Children(b)
                    /\ \A q \in AllPops \ {p} : Holding(cells', q, m) = {}
      ]_vars

\* A bin of the grid as built was subdivided, and two of its children hold
\* Candidates.
C26_Witness ==
    \E b \in Cells(UniformSizes(b_descs)) :
        /\ bin_sizes = Halved(UniformSizes(b_descs), b)
        /\ \E c \in Children(b), d \in Children(b) :
              /\ c # d
              /\ \E p \in AllPops : cells[c][p].members # {}
              /\ \E p \in AllPops : cells[d][p].members # {}
\* C27: along each axis the sizes of the bins sum to the range of the bounds
\* of the axis's active descriptor.
C27_SizesCoverBounds ==
    \A a \in Axes :
        SumTo(bin_sizes[a], Len(bin_sizes[a]))
            = BoundRange(DescriptorNamed(b_descs[a]))

\* A grid that was rebuilt for other descriptors on both axes and then
\* subdivided.
C27_Witness ==
    /\ \A a \in Axes : b_descs[a] # InitialDescriptors[a]
    /\ Len(bin_sizes[1]) > bin_qnt[1]
\* C28: once the three observations are inserted, the entry's merged value
\* and count are those of inserting the three in any other order.
C28_MeanMergeOrderFree ==
    buffer.n = Len(observations) =>
        \A p \in Permutations(1..Len(observations)) :
            SameEntry(buffer,
                      InsertedAll(NoEntry,
                                  [k \in 1..Len(observations) |->
                                      observations[p[k]]]))

\* Three different observations were merged.
C28_Witness ==
    /\ buffer.n = 3
    /\ Cardinality({observations[k] : k \in 1..Len(observations)}) = 3
\* C35: an invocation whose trigger is no key of triggers_map, dispatched
\* with the lock free, ends with the lock free again and with the archive,
\* the generation counter and the selection as they were.
C35_UnknownTriggerIsNoOp ==
    [][\A t \in Threads :
          (pc[t] = "handler" /\ trig[t] \notin triggers_map /\ Moves(t)) =>
              /\ ~locked'
              /\ UNCHANGED <<archive, gen_counter, selected_bins>>]_vars
\* The invocation of thread t is the page load that consumed first_launch.
FirstLaunch(t) == trig[t] = "reset-btn" /\ "reset-btn" \notin events[t]

\* C34: the page load that consumed first_launch executes the reset (it
\* ends by returning from the handler, not by finding the lock held), and
\* the later page loads leave the archive and the generation counter alone.
C34_FirstLoadResetsOnce ==
    [][\A t \in Threads :
          /\ (FirstLaunch(t) /\ pc[t] # "idle" /\ pc'[t] = "idle") =>
                 pc[t] = "format"
          /\ (trig[t] = "None" /\ Moves(t)) =>
                 UNCHANGED <<bins, new_elite, gen_counter>>]_vars
\* C36: an export that is over, finished or failed, has left the
\* export-running flag at 'NO'.
C36_ExportFlagCleared ==
    xpc = "idle" => download_semaphore.running = "NO"
\* The ends of the bins' ranges along one axis, and the middle of the k-th
\* bin's range.
Boundaries(sz) == {SumTo(sz, k) : k \in 0..Len(sz)}
Middle(sz, k) == SumTo(sz, k - 1) + sz[k] \div 2

RunsSubdivide(t) == pc[t] = "handler" /\ trig[t] = "subdivide-btn" /\ Moves(t)

\* C31: a subdivide request splits the range of every bin selected when it
\* was issued in half, once, along both axes, and no other range; afterwards
\* the selection is empty.
C31_SubdividesSelectedOnce ==
    [][\A t \in Threads :
          RunsSubdivide(t) =>
              /\ selected_bins' = <<>>
              /\ \A a \in Axes :
                    Boundaries(bin_sizes'[a]) =
                        Boundaries(bin_sizes[a]) \cup
                        {Middle(bin_sizes[a], _switch(selected_bins)[k][a] + 1) :
                             k \in 1..Len(selected_bins)}]_vars
\* C32: after an accepted step that leaves bins selected, the preview is
\* drawn again from the new elite exactly when the last selected bin, the
\* bin the elite is read from, has its new_elite flag set for the displayed
\* population.
C32_PreviewFollowsNewElite ==
    [][\A t \in Threads :
          (pc[t] = "as_write" /\ Moves(t) /\ selected_bins' # <<>>) =>
              (loc'[t].refreshed <=>
                   new_elite[SwitchT(selected_bins'[Len(selected_bins')])]
                            ["feasible"])]_vars
\* C33: the RandomEmitter an automatic step in user mode substitutes does
\* not outlive the step's emitter phase: while no step is in that phase the
\* archive holds the emitter that was chosen, which has not run.
C33_EmitterRestored ==
    (\A t \in Threads : pc[t] # "st_emit") =>
        emitter = chosen /\ ~emitter_used
C38_PopulationStaysDisplayed ==
    [][\A t \in Threads :
          (Moves(t) /\ trig[t] \notin PopEvents) =>
              curr_heatmap' = curr_heatmap]_vars

\* C39: the confirmed safe-mode toggle flips safe_mode if the target ruleset
\* was installed; if it was not, the ruleset, safe_mode, the population and
\* the generation counter are as before.
C39_ToggleFollowsRuleset ==
    [][\A t \in Threads :
          (pc[t] = "handler" /\ trig[t] = "tsrm-y-btn" /\ Moves(t)) =>
              IF loc'[t].rules_out = "failed"
                THEN UNCHANGED <<rules, safe_mode, bins, gen_counter>>
                ELSE /\ safe_mode' = ~safe_mode
                     /\ rules' = TargetRuleset(safe_mode)]_vars
\* C40: the emitter phase of a step runs as many iterations as the value of
\* emitter_steps the progress increment was computed from, step_progress
\* never exceeds 100, and it is exactly 100 when the phase is over.
C40_ProgressReachesHundred ==
    \A t \in Threads :
        /\ pc[t] = "st_emit" => loc[t].perc = PercStep(loc[t].n)
        /\ pc[t] \in {"st_human", "st_emit", "st_update"} =>
               step_progress <= Hundred
        /\ pc[t] = "st_update" => step_progress = Hundred

==========================================================================
